---------------------------- MODULE Spec2Model ----------------------------
(***************************************************************************)
(* Campaign send-scheduling and rotation engine of Next-Email-Outreach.    *)
(*                                                                         *)
(* The store (campaigns, contacts, emailaccounts, emaillogs, users) is the *)
(* state; one polling cycle of worker/campaign_processor.py fetches the    *)
(* active campaigns and processes them one after the other.  Time is       *)
(* counted in ticks of six hours of UTC wall clock.                        *)
(***************************************************************************)
EXTENDS Integers, Sequences, FiniteSets, TLC

(***************************************************************************)
(* Bounds of the model.                                                    *)
(***************************************************************************)
MaxTime == 4
MaxLogs == 3
MaxLag == 1
MaxEdits == 1
MaxCampaigns == 11
MaxFeeds == 4

(***************************************************************************)
(* Wall clock.  A tick is six hours; tick 0 is EpochWeekday, 00:00 UTC.    *)
(***************************************************************************)
MinutesPerDay == 24 * 60
TickMinutes == 6 * 60
TicksPerDay == MinutesPerDay \div TickMinutes
\* Python weekday() of day 0: 0=Monday .. 6=Sunday; day 0 is a Friday.
EpochWeekday == 4

None == "None"
\* A missing timestamp (no such log, never contacted).
NoTime == 0 - 1

\* pytz.timezone(name): the zones of the model and their UTC offset in ticks;
\* any other name raises UnknownTimeZoneError.
KnownTimezones == {"UTC", "Asia/Dhaka"}
utcoffset(tzname) == IF tzname = "Asia/Dhaka" THEN 1 ELSE 0

\* datetime.now(user_tz) at UTC tick t, as (weekday(), hour*60+minute).
LocalTick(t, tzname) == t + utcoffset(tzname)
weekday(localTick) == (EpochWeekday + (localTick \div TicksPerDay)) % 7
minute_of_day(localTick) == (localTick % TicksPerDay) * TickMinutes

\* "HH:MM" -> map(int, s.split(':')) -> hour * 60 + minute
to_minutes(hhmm) == hhmm[1] * 60 + hhmm[2]

SuccessStatuses == {"sent", "delivered", "opened", "clicked", "replied"}

(***************************************************************************)
(* validation.py                                                           *)
(***************************************************************************)
\* The body of is_within_schedule once the local time is known: the day
\* check on the JavaScript weekday, then the hour check.
schedule_allows(schedule, pyWeekday, current_minutes) ==
    LET js_weekday == (pyWeekday + 1) % 7
        start_minutes == to_minutes(schedule.sendingHours.start)
        end_minutes == to_minutes(schedule.sendingHours.end)
        within_hours ==
            IF start_minutes <= end_minutes
            THEN start_minutes <= current_minutes /\ current_minutes <= end_minutes
            ELSE current_minutes >= start_minutes \/ current_minutes <= end_minutes
    IN  IF js_weekday \notin schedule.sendingDays THEN FALSE ELSE within_hours

\* is_within_schedule(campaign, user_timezone) when datetime.now(user_tz)
\* reads (pyWeekday, current_minutes); an unknown timezone name raises inside
\* the try and the except returns False.
is_within_schedule_at(campaign, user_timezone, pyWeekday, current_minutes) ==
    IF user_timezone \notin KnownTimezones
    THEN FALSE
    ELSE schedule_allows(campaign.schedule, pyWeekday, current_minutes)

\* is_within_schedule(campaign, user_timezone) called at UTC tick t.
is_within_schedule(campaign, user_timezone, t) ==
    LET lt == LocalTick(t, user_timezone)
    IN  is_within_schedule_at(campaign, user_timezone, weekday(lt), minute_of_day(lt))

\* today = now.replace(hour=0, ...): the first tick of t's UTC day.
utc_day(t) == t \div TicksPerDay

\* db.emaillogs.count_documents({emailAccountId, sentAt in today, status in ...})
emails_sent_today(logs, email_account_id, t) ==
    Cardinality({i \in 1..Len(logs) :
        /\ logs[i].emailAccountId = email_account_id
        /\ utc_day(logs[i].sentAt) = utc_day(t)
        /\ logs[i].status \in SuccessStatuses})

\* The comparison with the operator one off: an account exactly at its cap
\* still passes.
limit_reached_strict(sent_today, daily_limit) == sent_today > daily_limit

limit_reached(sent_today, daily_limit) == sent_today >= daily_limit

\* check_daily_limit(db, email_account_id) read at UTC tick t.
check_daily_limit(logs, accts, email_account_id, t) ==
    IF email_account_id \notin DOMAIN accts
    THEN FALSE
    ELSE ~limit_reached(emails_sent_today(logs, email_account_id, t),
                        accts[email_account_id].dailyLimit)

\* The step whose delayDays gates sending step sequence_step.
delay_step(sequence_step) == sequence_step

\* find_one(..., sort=[("sentAt", -1)]): the sentAt of the latest successful
\* log of (contact, campaign, step), or NoTime.
last_email_sentAt(logs, contact_id, campaign_id, step) ==
    LET hits == {i \in 1..Len(logs) :
                    /\ logs[i].contactId = contact_id
                    /\ logs[i].campaignId = campaign_id
                    /\ logs[i].sequenceStep = step
                    /\ logs[i].status \in SuccessStatuses}
    IN  IF hits = {} THEN NoTime
        ELSE LET latest == CHOOSE i \in hits :
                              \A j \in hits : logs[j].sentAt <= logs[i].sentAt
             IN  logs[latest].sentAt

\* check_sequence_delay(db, contact_id, campaign_id, sequence_step) at tick t;
\* it reads the campaign's sequences from the store again.
check_sequence_delay(logs, camps, contact_id, campaign_id, sequence_step, t) ==
    IF sequence_step = 0 THEN TRUE
    ELSE IF campaign_id \notin DOMAIN camps THEN FALSE
    ELSE LET sequences == camps[campaign_id].sequences
         IN  IF sequence_step >= Len(sequences) THEN FALSE
             ELSE LET delay_days == sequences[delay_step(sequence_step) + 1].delayDays
                      last == last_email_sentAt(logs, contact_id, campaign_id,
                                                sequence_step - 1)
                  IN  IF delay_days = 0 THEN TRUE
                      ELSE IF last = NoTime THEN FALSE
                      ELSE ~((t - last) < delay_days * TicksPerDay)
\* receive.py, can_send_email_now(campaign) when the clock of the owner's zone
\* reads (pyWeekday, current_minutes): an unknown timezone name is caught and
\* replaced by UTC; the Python weekday is looked up in sendingDays as it is;
\* the hours are compared as start <= now <= end.
can_send_email_now_at(campaign, user_timezone, pyWeekday, current_minutes) ==
    LET schedule == campaign.schedule
        start_hour == to_minutes(schedule.sendingHours.start)
        end_hour == to_minutes(schedule.sendingHours.end)
    IN  IF pyWeekday \notin schedule.sendingDays THEN FALSE
        ELSE start_hour <= current_minutes /\ current_minutes <= end_hour

\* validate_contact_status(contact)
validate_contact_status(contact) ==
    IF contact.status # "active" THEN FALSE
    ELSE IF contact.emailStatus = "bounced" THEN FALSE
    ELSE TRUE

(***************************************************************************)
(* The store.                                                              *)
(***************************************************************************)
Workers == {"w1", "w2"}
CampaignIds == {"c1", "c2"}
\* find({"isActive": True}).sort("_id", -1): latest first.
CampaignsLatestFirst == <<"c2", "c1">>

\* db.users: the owner's timezone.
\* ignoreKeywords is a string, here the sequence of its characters: " no,,"
\* for u1, none for u2.
users ==
    [u \in {"u1", "u2"} |->
        [timezone |-> IF u = "u2" THEN "Asia/Dhaka" ELSE "UTC",
         ignoreKeywords |-> IF u = "u1" THEN <<" ", "n", "o", ",", ",">> ELSE <<>>]]

Step(delayDays, isActive) == [delayDays |-> delayDays, isActive |-> isActive]
Window(start, end, days) ==
    [sendingHours |-> [start |-> start, end |-> end], sendingDays |-> days]
AlwaysOpen == Window(<<0, 0>>, <<23, 59>>, 0..6)

Campaign(userId, isActive, accountIds, contactIds, sequences, schedule) ==
    [userId |-> userId, isActive |-> isActive, emailAccountIds |-> accountIds,
     contactIds |-> contactIds, sequences |-> sequences, schedule |-> schedule,
     nextEmailAccountToUse |-> 0, nextContactToUse |-> 0,
     emailSent |-> 0, statsSent |-> 0, statsReplied |-> 0]
\* schedule and hasUpcomingSequence are the fields receive.py selects on; a
\* contact starts due (schedule 0) with a sequence to come.
Contact(status) ==
    [status |-> status, emailStatus |-> "never-sent", timesContacted |-> 0,
     lastContacted |-> NoTime, lastSent |-> NoTime, schedule |-> 0,
     hasUpcomingSequence |-> TRUE]
\* sentToday: a counter of the account document; check_daily_limit counts the
\* email logs instead.
Account(dailyLimit) == [dailyLimit |-> dailyLimit, lastUsed |-> NoTime, sentToday |-> 0]

Idle == Campaign("u1", FALSE, <<>>, <<>>, <<>>, AlwaysOpen)

(***************************************************************************)
(* Stores the model starts from.  Each is a store the web application can  *)
(* leave behind: campaigns reference contacts and accounts by id, and a    *)
(* contact or an account may be referenced by more than one campaign.      *)
(***************************************************************************)
ScenarioNames == {"A", "shared", "window", "fair", "ring", "steps"}

Scenario(name) ==
    CASE name = "A" ->
           [campaigns |-> [c \in CampaignIds |->
                IF c = "c1"
                THEN Campaign("u1", TRUE, <<"a1", "a2">>, <<"k1">>,
                              <<Step(0, TRUE)>>, AlwaysOpen)
                ELSE Idle],
            contacts |-> [k \in {"k1", "k2"} |-> Contact("active")],
            accounts |-> [a \in {"a1", "a2"} |-> Account(1)],
            editable |-> {}, contactRings |-> {}, accountRings |-> {}]
      [] name = "shared" ->
           [campaigns |-> [c \in CampaignIds |->
                IF c = "c1"
                THEN Campaign("u1", TRUE, <<"a1", "a2">>, <<"k1", "k2">>,
                              <<Step(1, TRUE), Step(0, TRUE)>>, AlwaysOpen)
                ELSE Campaign("u1", TRUE, <<"a1">>, <<"k1">>,
                              <<Step(0, TRUE), Step(1, TRUE)>>, AlwaysOpen)],
            contacts |-> [k \in {"k1", "k2"} |-> Contact("active")],
            accounts |-> [a \in {"a1", "a2"} |->
                            Account(IF a = "a1" THEN 3 ELSE 1)],
            editable |-> {}, contactRings |-> {}, accountRings |-> {}]
      [] name = "window" ->
           [campaigns |-> [c \in CampaignIds |->
                IF c = "c1"
                THEN Campaign("u2", TRUE, <<"a1">>, <<"k1", "k2">>,
                              <<Step(0, TRUE)>>,
                              Window(<<6, 0>>, <<12, 0>>, {5, 6}))
                ELSE Idle],
            contacts |-> [k \in {"k1", "k2"} |-> Contact("active")],
            accounts |-> [a \in {"a1"} |-> Account(1)],
            editable |-> {}, contactRings |-> {}, accountRings |-> {}]
      [] name = "fair" ->
           [campaigns |-> [c \in CampaignIds |->
                IF c = "c1"
                THEN Campaign("u1", TRUE, <<"a1", "a2">>, <<"k1", "k2">>,
                              <<Step(0, TRUE), Step(0, TRUE)>>, AlwaysOpen)
                ELSE Campaign("ghost", TRUE, <<"a1">>, <<"k1">>,
                              <<Step(0, TRUE)>>, AlwaysOpen)],
            contacts |-> [k \in {"k1", "k2"} |->
                            Contact(IF k = "k2" THEN "unsubscribed" ELSE "active")],
            accounts |-> [a \in {"a1", "a2"} |-> Account(3)],
            editable |-> {}, contactRings |-> {}, accountRings |-> {}]
      [] name = "ring" ->
           [campaigns |-> [c \in CampaignIds |->
                IF c = "c1"
                THEN Campaign("u1", TRUE, <<"a1", "a2">>,
                              <<"k1", "k2", "k3", "k4", "k5">>,
                              <<Step(0, TRUE)>>, AlwaysOpen)
                ELSE Campaign(None, TRUE, <<"a1">>, <<"k1">>,
                              <<Step(0, TRUE)>>, AlwaysOpen)],
            contacts |-> [k \in {"k1", "k2", "k3", "k4", "k5"} |->
                            Contact(IF k \in {"k1", "k2"} THEN "active"
                                                          ELSE "unsubscribed")],
            accounts |-> [a \in {"a1", "a2"} |-> Account(2)],
            editable |-> {"c1"},
            contactRings |-> {<<"k1", "k2", "k3">>,
                              <<"k1", "k2", "k3", "k4", "k5">>, <<>>},
            accountRings |-> {<<"a1">>, <<"a1", "a2">>}]
      [] name = "steps" ->
           [campaigns |-> [c \in CampaignIds |->
                IF c = "c1"
                THEN Campaign("u1", TRUE, <<"a1">>, <<"k1">>,
                              <<Step(0, TRUE), Step(0, FALSE), Step(0, TRUE)>>,
                              AlwaysOpen)
                ELSE Idle],
            contacts |-> [k \in {"k1"} |-> Contact("active")],
            accounts |-> [a \in {"a1"} |-> Account(3)],
            editable |-> {}, contactRings |-> {}, accountRings |-> {}]
      [] name = "due" ->
           [campaigns |-> [c \in CampaignIds |->
                IF c = "c1"
                THEN Campaign("u1", TRUE, <<"a1", "a2">>, <<"k1", "k2", "k3">>,
                              <<Step(0, TRUE), Step(0, FALSE), Step(0, TRUE)>>,
                              AlwaysOpen)
                ELSE Campaign("u2", TRUE, <<"a1">>, <<"k1">>,
                              <<Step(0, TRUE)>>,
                              Window(<<6, 0>>, <<12, 0>>, {4, 5}))],
            contacts |-> [k \in {"k1", "k2", "k3"} |->
                            IF k = "k2"
                            THEN [Contact("active") EXCEPT !.emailStatus = "bounced"]
                            ELSE Contact(IF k = "k1" THEN "active" ELSE "unsubscribed")],
            accounts |-> [a \in {"a1", "a2"} |-> Account(2)],
            editable |-> {}, contactRings |-> {}, accountRings |-> {}]
      [] name = "maint" ->
           [campaigns |-> [c \in CampaignIds |->
                IF c = "c1"
                THEN Campaign("u1", TRUE, <<"a1">>, <<"k1", "k2">>,
                              <<Step(0, TRUE) @@ [nextEmailAfter |-> 0],
                                Step(0, FALSE) @@ [nextEmailAfter |-> 0],
                                Step(0, TRUE) @@ [nextEmailAfter |-> 1]>>,
                              AlwaysOpen)
                ELSE Campaign("u1", TRUE, <<"a1">>, <<"k3">>,
                              <<Step(0, TRUE), Step(0, TRUE)>>, AlwaysOpen)],
            contacts |-> [k \in {"k1", "k2", "k3"} |->
                            Contact("active") @@
                            [campaignId |-> IF k = "k3" THEN "c2" ELSE "c1"]],
            accounts |-> [a \in {"a1"} |-> Account(2)],
            editable |-> {}, contactRings |-> {}, accountRings |-> {}]

(***************************************************************************)
(* State.                                                                  *)
(***************************************************************************)
VARIABLES
    campaigns,      \* db.campaigns: id -> document
    contacts,       \* db.contacts: id -> document
    emailaccounts,  \* db.emailaccounts: id -> document
    emaillogs,      \* db.emaillogs, in insertion order
    now,            \* the UTC wall clock, in ticks
    fetched,        \* per worker: the campaigns list of its current cycle
    pos,            \* per worker: index into fetched of the campaign to process, 0 between cycles
    pc,             \* per worker: where it is inside one campaign's processing
    loc,            \* per worker: the locals of process_single_campaign
    scenario,       \* the store the run started from
    edits,          \* number of external ring edits so far
    lastRun,        \* per campaign: what its last processing did (history)
    probe,          \* one call of is_within_schedule: its inputs and its result
    outbox,         \* receive.py: the calls of send_email, in order
    loop,           \* per process: how its last polling cycle ended (history)
    receivedemails, \* db.receivedemails, in insertion order
    delivered,      \* the inbound messages the mailboxes have yielded, in order (history)
    render          \* one call of personalize_content: its inputs and its result

vars == <<campaigns, contacts, emailaccounts, emaillogs, now, fetched, pos, pc,
          loc, scenario, edits, lastRun, probe, outbox, loop, receivedemails,
          delivered, render>>

(***************************************************************************)
(* campaign_processor.py: selection (everything before the email log)      *)
(***************************************************************************)
\* (cursor + 1) % len(ring): the rotation of process_single_campaign.
next_index(cursor, ringLength) == (cursor + 1) % ringLength

\* Whether some account of the ring is under its daily cap at tick t.
some_under_cap(logs, accts, ring, t) ==
    \E i \in 1..Len(ring) : check_daily_limit(logs, accts, ring[i], t)
all_under_cap(logs, accts, ring, t) ==
    \A i \in 1..Len(ring) : check_daily_limit(logs, accts, ring[i], t)

NoSelection ==
    [gate |-> "", rotated |-> FALSE, idxA |-> 0, idxC |-> 0,
     account |-> None, contact |-> None, step |-> 0, sentToday |-> 0]

\* process_campaigns' gates for one fetched campaign, then
\* process_single_campaign up to the call of process_email_content, read at
\* tick t: the gate that stopped it ("ok" when none did), whether the rotated
\* cursors were written, and the account, contact and step selected.
select(id, doc, camps, conts, accts, logs, t) ==
    IF doc.userId = None THEN [NoSelection EXCEPT !.gate = "no_userId"]
    ELSE IF doc.userId \notin DOMAIN users THEN [NoSelection EXCEPT !.gate = "no_user"]
    ELSE IF ~is_within_schedule(doc, users[doc.userId].timezone, t)
         THEN [NoSelection EXCEPT !.gate = "schedule"]
    ELSE IF doc.emailAccountIds = <<>> \/ doc.contactIds = <<>> \/ doc.sequences = <<>>
         THEN [NoSelection EXCEPT !.gate = "missing_data"]
    ELSE
    LET idxA == next_index(doc.nextEmailAccountToUse, Len(doc.emailAccountIds))
        idxC == next_index(doc.nextContactToUse, Len(doc.contactIds))
        rot == [NoSelection EXCEPT !.rotated = TRUE, !.idxA = idxA, !.idxC = idxC]
    IN
    \* emailAccountIds[nextEmailAccountToUse]: an IndexError lands in the except
    IF idxA \notin 0..(Len(doc.emailAccountIds) - 1) THEN [rot EXCEPT !.gate = "exception"]
    ELSE
    LET acct == doc.emailAccountIds[idxA + 1]
        withA == [rot EXCEPT !.account = acct]
    IN
    IF acct \notin DOMAIN accts THEN [withA EXCEPT !.gate = "no_account"]
    ELSE IF ~check_daily_limit(logs, accts, acct, t)
         THEN [withA EXCEPT !.gate = "daily_limit"]
    ELSE IF idxC \notin 0..(Len(doc.contactIds) - 1) THEN [withA EXCEPT !.gate = "exception"]
    ELSE
    LET cid == doc.contactIds[idxC + 1]
        withC == [withA EXCEPT !.contact = cid,
                               !.sentToday = emails_sent_today(logs, acct, t)]
    IN
    IF cid \notin DOMAIN conts THEN [withC EXCEPT !.gate = "no_contact"]
    ELSE IF ~validate_contact_status(conts[cid]) THEN [withC EXCEPT !.gate = "contact_status"]
    ELSE
    LET timesContacted == conts[cid].timesContacted
        withS == [withC EXCEPT !.step = timesContacted]
    IN
    IF timesContacted >= Len(doc.sequences) THEN [withS EXCEPT !.gate = "exhausted"]
    ELSE IF ~check_sequence_delay(logs, camps, cid, id, timesContacted, t)
         THEN [withS EXCEPT !.gate = "delay"]
    ELSE IF ~doc.sequences[timesContacted + 1].isActive
         THEN [withS EXCEPT !.gate = "inactive"]
    ELSE [withS EXCEPT !.gate = "ok"]

\* The cursor write placed before the gates of process_campaigns.
write_cursors_before_gates(camps, id, sel) ==
    [camps EXCEPT ![id].nextEmailAccountToUse = @ + 1, ![id].nextContactToUse = @ + 1]

\* db.campaigns.update_one($set the two rotated cursors)
write_cursors(camps, id, sel) ==
    IF sel.rotated
    THEN [camps EXCEPT ![id].nextEmailAccountToUse = sel.idxA,
                       ![id].nextContactToUse = sel.idxC]
    ELSE camps

\* simulate_send_email: the simulator reports success.
simulate_send_email == TRUE

\* create_email_log at tick t: status "sent", sentAt = now.  The last three
\* fields are history the store does not hold: the account's count when the
\* daily limit was checked, whether every account of the ring was then under
\* its cap, and the tick of the checks.
\* uuid4 returning the identifier of an earlier call.
uuid4_repeated(logs) == "u1"

\* str(uuid.uuid4()): an identifier no earlier call returned.
uuid4(logs) == <<"u1", "u2", "u3", "u4", "u5", "u6">>[Len(logs) + 1]

email_log(id, sel, t, allUnder, checkedAt) ==
    [campaignId |-> id, contactId |-> sel.contact, emailAccountId |-> sel.account,
     sequenceStep |-> sel.step, messageId |-> uuid4(emaillogs),
     status |-> "sent", sentAt |-> t,
     failedAt |-> NoTime, errorMessage |-> None,
     sentTodayAtSelection |-> sel.sentToday, ringUnderCap |-> allUnder,
     checkedAt |-> checkedAt]

\* update_after_successful_send, contact part: $set timesContacted + 1
contact_after_send(conts, sel, t) ==
    [conts EXCEPT ![sel.contact].timesContacted = sel.step + 1,
                  ![sel.contact].lastContacted = t,
                  ![sel.contact].lastSent = t,
                  ![sel.contact].emailStatus = "sent"]

\* update_after_successful_send raising stats.sent and leaving emailSent.
campaign_after_send_stats_only(camps, id) == [camps EXCEPT ![id].statsSent = @ + 1]

\* update_after_successful_send, campaign part: $inc emailSent, stats.sent
campaign_after_send(camps, id) ==
    [camps EXCEPT ![id].emailSent = @ + 1, ![id].statsSent = @ + 1]

\* update_after_successful_send, account part: $set lastUsed
account_after_send(accts, sel, t) ==
    [accts EXCEPT ![sel.account].lastUsed = t]

\* The log left as create_email_log wrote it.
mark_email_as_failed_skipped(logs, i, t) == logs

\* mark_email_as_failed
mark_email_as_failed(logs, i, t) ==
    [logs EXCEPT ![i].status = "failed", ![i].failedAt = t,
                 ![i].errorMessage = "Simulation failed"]

\* fetch_active_campaigns: the active campaigns, latest first, as read now.
\* process_campaigns passes limit 10 to fetch_active_campaigns.
fetch_limit == 10

\* find({"isActive": True}).sort("_id", -1).limit(limit) over the ids in
\* latest_first, the ids of the collection sorted by _id descending.
find_active_latest(latest_first, camps, limit) ==
    LET F[i \in 0..Len(latest_first)] ==
            IF i = 0 THEN <<>>
            ELSE LET id == latest_first[i]
                 IN  IF camps[id].isActive /\ Len(F[i - 1]) < limit
                     THEN Append(F[i - 1], [id |-> id, doc |-> camps[id]])
                     ELSE F[i - 1]
    IN  F[Len(latest_first)]

fetch_active_campaigns(camps) ==
    find_active_latest(CampaignsLatestFirst, camps, fetch_limit)

(***************************************************************************)
(* The polling loop of start.py with one orchestrator (worker "w1").       *)
(***************************************************************************)
NoProbe ==
    [schedule |-> AlwaysOpen, timezone |-> "UTC", weekday |-> 0, minutes |-> 0,
     done |-> FALSE, result |-> FALSE, can_send |-> FALSE]

\* No cycle has failed yet.
NoLoop == [failed |-> FALSE, slept |-> 0]

NoRender == [content |-> <<>>, contact |-> "", done |-> FALSE, result |-> <<>>]

NoRun ==
    [gate |-> "", prevGate |-> "", cursorA |-> 0, lenA |-> 0, idxA |-> 0,
     cursorC |-> 0, lenC |-> 0, idxC |-> 0, account |-> None,
     someUnderCap |-> FALSE, capped |-> {}, contact |-> None, step |-> 0,
     transport |-> None]

Init ==
    /\ scenario \in ScenarioNames
    /\ campaigns = Scenario(scenario).campaigns
    /\ contacts = Scenario(scenario).contacts
    /\ emailaccounts = Scenario(scenario).accounts
    /\ emaillogs = <<>>
    /\ now = 0
    /\ fetched = [w \in Workers |-> <<>>]
    /\ pos = [w \in Workers |-> 0]
    /\ pc = [w \in Workers |-> "idle"]
    /\ loc = [w \in Workers |-> [id |-> None, sel |-> NoSelection, checkedAt |-> 0]]
    /\ edits = 0
    /\ lastRun = [c \in CampaignIds |-> NoRun]
    /\ probe = NoProbe
    /\ outbox = <<>>
    /\ loop = [w \in Workers |-> NoLoop]
    /\ receivedemails = <<>>
    /\ delivered = <<>>
    /\ render = NoRender

\* The history record of one processed campaign.
run_record(id, doc, sel, accts, logs, t) ==
    [gate |-> sel.gate, prevGate |-> lastRun[id].gate,
     cursorA |-> doc.nextEmailAccountToUse, lenA |-> Len(doc.emailAccountIds),
     idxA |-> sel.idxA,
     cursorC |-> doc.nextContactToUse, lenC |-> Len(doc.contactIds),
     idxC |-> sel.idxC, account |-> sel.account,
     contact |-> sel.contact, step |-> sel.step,
     someUnderCap |-> some_under_cap(logs, accts, doc.emailAccountIds, t),
     capped |-> {doc.emailAccountIds[i] : i \in {j \in 1..Len(doc.emailAccountIds) :
                    ~check_daily_limit(logs, accts, doc.emailAccountIds[j], t)}},
     transport |-> None]

\* The cycle ended by the first campaign processed.
next_pos_return(w) == IF pos[w] >= 1 THEN 0 ELSE pos[w] + 1

\* After the campaign at pos: the next one, or the end of the cycle.
next_pos(w) == IF pos[w] >= Len(fetched[w]) THEN 0 ELSE pos[w] + 1

\* process_campaigns, line 15: the start of a cycle.
Fetch(w) ==
    /\ pc[w] = "idle" /\ pos[w] = 0
    /\ fetch_active_campaigns(campaigns) # <<>>
    /\ fetched' = [fetched EXCEPT ![w] = fetch_active_campaigns(campaigns)]
    /\ pos' = [pos EXCEPT ![w] = 1]
    /\ loop' = [loop EXCEPT ![w] = NoLoop]
    /\ UNCHANGED <<campaigns, contacts, emailaccounts, emaillogs, now, pc, loc,
                   scenario, edits, lastRun, probe, outbox, receivedemails,
                   delivered, render>>

\* One iteration of the loop of process_campaigns: the gates, the selection,
\* the email log, the simulated send and the updates.  lag is the time that
\* passes between the checks and the creation of the email log (website
\* fetch, AI calls).
ProcessCampaignWith(w, log_created, email_sent_successfully) ==
    /\ pc[w] = "idle" /\ pos[w] \in 1..Len(fetched[w])
    /\ Len(emaillogs) < MaxLogs
    /\ \E lag \in 0..MaxLag :
        LET id == fetched[w][pos[w]].id
            doc == fetched[w][pos[w]].doc
            sel == select(id, doc, campaigns, contacts, emailaccounts, emaillogs, now)
            rotated == write_cursors(campaigns, id, sel)
            allUnder == all_under_cap(emaillogs, emailaccounts, doc.emailAccountIds, now)
            logged == Append(emaillogs, email_log(id, sel, now + lag, allUnder, now))
            run == run_record(id, doc, sel, emailaccounts, emaillogs, now)
        IN  /\ now + lag <= MaxTime
            /\ IF sel.gate = "ok"
               THEN /\ now' = now + lag
                    /\ IF ~log_created
                       THEN /\ campaigns' = rotated
                            /\ lastRun' = [lastRun EXCEPT ![id] =
                                              [run EXCEPT !.gate = "log_failed"]]
                            /\ UNCHANGED <<contacts, emailaccounts, emaillogs>>
                       ELSE /\ lastRun' = [lastRun EXCEPT ![id] =
                                   [run EXCEPT !.transport = logged[Len(logged)].messageId]]
                            /\ IF email_sent_successfully
                               THEN /\ emaillogs' = logged
                                    /\ contacts' = contact_after_send(contacts, sel, now + lag)
                                    /\ campaigns' = campaign_after_send(rotated, id)
                                    /\ emailaccounts' =
                                          account_after_send(emailaccounts, sel, now + lag)
                               ELSE /\ emaillogs' = mark_email_as_failed(logged, Len(logged),
                                                                         now + lag)
                                    /\ campaigns' = rotated
                                    /\ UNCHANGED <<contacts, emailaccounts>>
               ELSE /\ lag = 0
                    /\ campaigns' = rotated
                    /\ lastRun' = [lastRun EXCEPT ![id] = run]
                    /\ UNCHANGED <<contacts, emailaccounts, emaillogs, now>>
    /\ pos' = [pos EXCEPT ![w] = next_pos(w)]
    /\ UNCHANGED <<fetched, pc, loc, scenario, edits, probe, outbox, loop, receivedemails, delivered, render>>

\* The loop body with the simulator of this repository as the transport.
ProcessCampaign(w) == ProcessCampaignWith(w, TRUE, simulate_send_email)

\* The wall clock advances (time.sleep between campaigns and cycles).
Tick ==
    /\ now < MaxTime
    /\ now' = now + 1
    /\ UNCHANGED <<campaigns, contacts, emailaccounts, emaillogs, fetched, pos,
                   pc, loc, scenario, edits, lastRun, probe, outbox, loop, receivedemails, delivered, render>>

\* The application edits a campaign's contactIds while the worker runs.
EditContacts(c) ==
    /\ edits < MaxEdits
    /\ c \in Scenario(scenario).editable
    /\ \E ring \in Scenario(scenario).contactRings :
        /\ ring # campaigns[c].contactIds
        /\ campaigns' = [campaigns EXCEPT ![c].contactIds = ring]
    /\ edits' = edits + 1
    /\ UNCHANGED <<contacts, emailaccounts, emaillogs, now, fetched, pos, pc,
                   loc, scenario, lastRun, probe, outbox, loop, receivedemails, delivered, render>>

\* The application edits a campaign's emailAccountIds while the worker runs.
EditAccounts(c) ==
    /\ edits < MaxEdits
    /\ c \in Scenario(scenario).editable
    /\ \E ring \in Scenario(scenario).accountRings :
        /\ ring # campaigns[c].emailAccountIds
        /\ campaigns' = [campaigns EXCEPT ![c].emailAccountIds = ring]
    /\ edits' = edits + 1
    /\ UNCHANGED <<contacts, emailaccounts, emaillogs, now, fetched, pos, pc,
                   loc, scenario, lastRun, probe, outbox, loop, receivedemails, delivered, render>>

Next ==
    \/ Fetch("w1")
    \/ ProcessCampaign("w1")
    \/ Tick
    \/ \E c \in CampaignIds : EditContacts(c)
    \/ \E c \in CampaignIds : EditAccounts(c)

Spec == Init /\ [][Next]_vars

(***************************************************************************)
(* The worker with a transport that can refuse.  simulate_send_email of    *)
(* this repository always reports success; process_email_content branches  *)
(* on what the transport returns, and here the transport returns either.   *)
(***************************************************************************)
TransportScenarios == {"A", "fair", "steps", "window"}

InitTransport == Init /\ scenario \in TransportScenarios

\* The loop body with the transport's answer chosen by the transport.
ProcessCampaignTransport(w) ==
    \E log_created, email_sent_successfully \in BOOLEAN :
        ProcessCampaignWith(w, log_created, email_sent_successfully)

NextTransport ==
    \/ Fetch("w1")
    \/ ProcessCampaignTransport("w1")
    \/ Tick

SpecTransport == InitTransport /\ [][NextTransport]_vars

(***************************************************************************)
(* Two orchestrator instances (start.py started twice) against one store.  *)
(* Each store operation of a worker is atomic; the workers interleave      *)
(* between the selection, the insertion of the email log and the updates   *)
(* of update_after_successful_send.                                        *)
(***************************************************************************)
ConcScenarios == {"A", "shared"}

InitConc == Init /\ scenario \in ConcScenarios

\* process_campaigns' gates and process_single_campaign up to the call of
\* process_email_content: the cursors are written, the contact is read.
WSelect(w) ==
    /\ pc[w] = "idle" /\ pos[w] \in 1..Len(fetched[w])
    /\ Len(emaillogs) < MaxLogs
    /\ LET id == fetched[w][pos[w]].id
           doc == fetched[w][pos[w]].doc
           sel == select(id, doc, campaigns, contacts, emailaccounts, emaillogs, now)
       IN  /\ campaigns' = write_cursors(campaigns, id, sel)
           /\ lastRun' = [lastRun EXCEPT ![id] =
                             run_record(id, doc, sel, emailaccounts, emaillogs, now)]
           /\ IF sel.gate = "ok"
              THEN /\ pc' = [pc EXCEPT ![w] = "content"]
                   /\ loc' = [loc EXCEPT ![w] = [id |-> id, sel |-> sel, checkedAt |-> now]]
                   /\ pos' = pos
              ELSE /\ pos' = [pos EXCEPT ![w] = next_pos(w)]
                   /\ UNCHANGED <<pc, loc>>
    /\ UNCHANGED <<contacts, emailaccounts, emaillogs, now, fetched, scenario, edits, probe, outbox, loop, receivedemails, delivered, render>>

\* process_email_content: create_email_log, then the simulated send.
WLog(w) ==
    /\ pc[w] = "content"
    /\ LET doc == fetched[w][pos[w]].doc
           allUnder == all_under_cap(emaillogs, emailaccounts, doc.emailAccountIds,
                                     loc[w].checkedAt)
           logged == Append(emaillogs,
                            email_log(loc[w].id, loc[w].sel, now, allUnder, loc[w].checkedAt))
       IN  IF simulate_send_email
           THEN /\ emaillogs' = logged
                /\ pc' = [pc EXCEPT ![w] = "update"]
                /\ pos' = pos
           ELSE /\ emaillogs' = mark_email_as_failed(logged, Len(logged), now)
                /\ pc' = [pc EXCEPT ![w] = "idle"]
                /\ pos' = [pos EXCEPT ![w] = next_pos(w)]
    /\ UNCHANGED <<campaigns, contacts, emailaccounts, now, fetched, loc, scenario,
                   edits, lastRun, probe, outbox, loop, receivedemails, delivered, render>>

\* update_after_successful_send with the timesContacted read at selection.
WCommit(w) ==
    /\ pc[w] = "update"
    /\ contacts' = contact_after_send(contacts, loc[w].sel, now)
    /\ campaigns' = campaign_after_send(campaigns, loc[w].id)
    /\ emailaccounts' = account_after_send(emailaccounts, loc[w].sel, now)
    /\ pc' = [pc EXCEPT ![w] = "idle"]
    /\ pos' = [pos EXCEPT ![w] = next_pos(w)]
    /\ UNCHANGED <<emaillogs, now, fetched, loc, scenario, edits, lastRun, probe, outbox, loop, receivedemails, delivered, render>>

NextConc ==
    \E w \in Workers :
        \/ Fetch(w)
        \/ WSelect(w)
        \/ WLog(w)
        \/ WCommit(w)

SpecConc == InitConc /\ [][NextConc]_vars

(***************************************************************************)
(* start.py under an interrupt signal.  KeyboardInterrupt is raised at     *)
(* whatever statement the process is executing; it is not an Exception, so *)
(* no handler of campaign_processor.py catches it and it reaches           *)
(* start.py's except clause, which ends the process.                       *)
(***************************************************************************)
CancelScenarios == {"A", "fair", "steps"}

InitCancel == Init /\ scenario \in CancelScenarios

\* start.py, lines 20-21: the process ends where the signal found it.
KeyboardInterrupt(w) ==
    /\ pc[w] # "stopped"
    /\ pc' = [pc EXCEPT ![w] = "stopped"]
    /\ UNCHANGED <<campaigns, contacts, emailaccounts, emaillogs, now, fetched,
                   pos, loc, scenario, edits, lastRun, probe, outbox, loop,
                   receivedemails, delivered, render>>

NextCancel ==
    \/ Fetch("w1")
    \/ WSelect("w1")
    \/ WLog("w1")
    \/ WCommit("w1")
    \/ Tick
    \/ KeyboardInterrupt("w1")

SpecCancel == InitCancel /\ [][NextCancel]_vars

(***************************************************************************)
(* receive.py: the loop of main(), run by process "w2".                    *)
(* get_scheduled_contacts picks per active campaign one contact that is    *)
(* due; main() then sends each its next active step.                       *)
(***************************************************************************)
\* campaigns_collection.find({'isActive': True}): natural order.
CampaignsNaturalOrder == <<"c1", "c2">>

\* The query of get_scheduled_contacts for campaign c at tick t.
due_contacts(camps, conts, c, t) ==
    {k \in DOMAIN conts :
        /\ \E i \in 1..Len(camps[c].contactIds) : camps[c].contactIds[i] = k
        /\ conts[k].schedule <= t
        /\ conts[k].status = "active"
        /\ conts[k].hasUpcomingSequence}

\* can_send_email_now(campaign) called at UTC tick t.
can_send_email_now(campaign, t) ==
    IF campaign.userId \notin DOMAIN users THEN FALSE
    ELSE LET user_timezone == users[campaign.userId].timezone
             tz == IF user_timezone \in KnownTimezones THEN user_timezone ELSE "UTC"
             lt == LocalTick(t, tz)
         IN  can_send_email_now_at(campaign, user_timezone, weekday(lt), minute_of_day(lt))

\* [seq for seq in campaign['sequences'] if seq.get('isActive', True)]
active_sequences(sequences) == SelectSeq(sequences, LAMBDA seq : seq.isActive)

\* sequence.get('nextEmailAfter', default)
next_email_after_days(sequence, default) ==
    IF "nextEmailAfter" \in DOMAIN sequence THEN sequence.nextEmailAfter ELSE default

\* update_sent_counts: $inc timesContacted, $set lastContacted
\* update_contact_schedule: $set schedule, hasUpcomingSequence
contact_after_due_send(conts, k, sequence, contact_sent_count, total_sequences, t) ==
    [conts EXCEPT ![k].timesContacted = @ + 1,
                  ![k].lastContacted = t,
                  ![k].schedule = t + next_email_after_days(sequence, 1) * TicksPerDay,
                  ![k].hasUpcomingSequence = (contact_sent_count + 1) < total_sequences]

\* update_sent_counts: $inc stats.sent
campaign_after_due_send(camps, id) == [camps EXCEPT ![id].statsSent = @ + 1]

\* get_scheduled_contacts(): for each active campaign with contacts, the
\* first document the query returns (limit(1)), with its campaign id.
GetScheduledContacts(w) ==
    /\ pc[w] = "idle" /\ pos[w] = 0
    /\ \E pick \in [CampaignIds -> DOMAIN contacts \cup {None}] :
        /\ \A c \in CampaignIds :
              LET due == IF campaigns[c].isActive
                         THEN due_contacts(campaigns, contacts, c, now) ELSE {}
              IN  IF due = {} THEN pick[c] = None ELSE pick[c] \in due
        /\ LET F[i \in 0..Len(CampaignsNaturalOrder)] ==
                    IF i = 0 THEN <<>>
                    ELSE LET c == CampaignsNaturalOrder[i]
                         IN  IF pick[c] = None THEN F[i - 1]
                             ELSE Append(F[i - 1], [campaign_id |-> c, id |-> pick[c],
                                                    contact |-> contacts[pick[c]]])
                all_scheduled_contacts == F[Len(CampaignsNaturalOrder)]
           IN  /\ all_scheduled_contacts # <<>>
               /\ fetched' = [fetched EXCEPT ![w] = all_scheduled_contacts]
    /\ pos' = [pos EXCEPT ![w] = 1]
    /\ loop' = [loop EXCEPT ![w] = NoLoop]
    /\ UNCHANGED <<campaigns, contacts, emailaccounts, emaillogs, now, pc, loc,
                   scenario, edits, lastRun, probe, outbox, receivedemails,
                   delivered, render>>

\* main(), one iteration of "for contact in contacts": the schedule check,
\* the random account, the target step among the active steps, send_email,
\* update_sent_counts and update_contact_schedule.
ProcessScheduledContact(w) ==
    /\ pc[w] = "idle" /\ pos[w] \in 1..Len(fetched[w])
    /\ Len(outbox) < MaxLogs
    /\ LET item == fetched[w][pos[w]]
           campaign == campaigns[item.campaign_id]
           active == active_sequences(campaign.sequences)
           contact_sent_count == item.contact.timesContacted
       IN  \/ /\ \/ ~can_send_email_now(campaign, now)
                  \/ campaign.emailAccountIds = <<>>
                  \/ contact_sent_count >= Len(active)
               /\ UNCHANGED <<campaigns, contacts, outbox>>
           \/ /\ can_send_email_now(campaign, now)
               /\ \E selected_index \in 1..Len(campaign.emailAccountIds) :
                    LET account == campaign.emailAccountIds[selected_index]
                    IN  IF account \in DOMAIN emailaccounts
                           /\ contact_sent_count < Len(active)
                        THEN /\ outbox' = Append(outbox,
                                    [to |-> item.id, from |-> account,
                                     campaignId |-> item.campaign_id,
                                     sequence |-> contact_sent_count, at |-> now])
                             /\ contacts' = contact_after_due_send(contacts, item.id,
                                    active[contact_sent_count + 1], contact_sent_count,
                                    Len(active), now)
                             /\ campaigns' = campaign_after_due_send(campaigns,
                                                                     item.campaign_id)
                        ELSE UNCHANGED <<campaigns, contacts, outbox>>
    /\ pos' = [pos EXCEPT ![w] = next_pos(w)]
    /\ UNCHANGED <<emailaccounts, emaillogs, now, fetched, pc, loc, scenario, edits,
                   lastRun, probe, loop, receivedemails, delivered, render>>

InitDue ==
    /\ scenario = "due"
    /\ campaigns = Scenario(scenario).campaigns
    /\ contacts = Scenario(scenario).contacts
    /\ emailaccounts = Scenario(scenario).accounts
    /\ emaillogs = <<>>
    /\ now = 0
    /\ fetched = [w \in Workers |-> <<>>]
    /\ pos = [w \in Workers |-> 0]
    /\ pc = [w \in Workers |-> "idle"]
    /\ loc = [w \in Workers |-> [id |-> None, sel |-> NoSelection, checkedAt |-> 0]]
    /\ edits = 0
    /\ lastRun = [c \in CampaignIds |-> NoRun]
    /\ probe = NoProbe
    /\ outbox = <<>>
    /\ loop = [w \in Workers |-> NoLoop]
    /\ receivedemails = <<>>
    /\ delivered = <<>>
    /\ render = NoRender

NextDue ==
    \/ GetScheduledContacts("w2")
    \/ ProcessScheduledContact("w2")
    \/ Tick

SpecDue == InitDue /\ [][NextDue]_vars

\* contacts_collection.find({'campaignId': campaign_id})
campaign_contacts(conts, campaign_id) ==
    {k \in DOMAIN conts :
        "campaignId" \in DOMAIN conts[k] /\ conts[k].campaignId = campaign_id}

\* update_all_contacts_upcoming_sequence_status(campaign_id)
UpdateAllContactsUpcomingSequenceStatus(campaign_id) ==
    /\ LET total_sequences == Len(active_sequences(campaigns[campaign_id].sequences))
       IN  contacts' = [k \in DOMAIN contacts |->
                IF k \in campaign_contacts(contacts, campaign_id)
                THEN [contacts[k] EXCEPT !.hasUpcomingSequence =
                                            contacts[k].timesContacted < total_sequences]
                ELSE contacts[k]]
    /\ UNCHANGED <<campaigns, emailaccounts, emaillogs, now, fetched, pos, pc, loc,
                   scenario, edits, lastRun, probe, outbox, loop, receivedemails,
                   delivered, render>>

\* set_all_contacts_upcoming_sequence_true(campaign_id)
SetAllContactsUpcomingSequenceTrue(campaign_id) ==
    /\ contacts' = [k \in DOMAIN contacts |->
                IF k \in campaign_contacts(contacts, campaign_id)
                THEN [contacts[k] EXCEPT !.hasUpcomingSequence = TRUE]
                ELSE contacts[k]]
    /\ UNCHANGED <<campaigns, emailaccounts, emaillogs, now, fetched, pos, pc, loc,
                   scenario, edits, lastRun, probe, outbox, loop, receivedemails,
                   delivered, render>>

\* update_contact_schedules_for_sequence_changes(campaign_id): the schedule of
\* a contact in the middle of the sequence, from its lastContacted and the
\* nextEmailAfter of the step it waits for; without lastContacted, from now.
UpdateContactSchedulesForSequenceChanges(campaign_id) ==
    /\ LET active == active_sequences(campaigns[campaign_id].sequences)
           total_sequences == Len(active)
       IN  /\ total_sequences # 0
           /\ contacts' = [k \in DOMAIN contacts |->
                LET contact_sent_count == contacts[k].timesContacted
                IN  IF /\ k \in campaign_contacts(contacts, campaign_id)
                       /\ contact_sent_count # 0
                       /\ contact_sent_count < total_sequences
                    THEN LET days == next_email_after_days(active[contact_sent_count + 1], 7)
                             last_contacted == contacts[k].lastContacted
                         IN  [contacts[k] EXCEPT !.schedule =
                                 (IF last_contacted # NoTime THEN last_contacted ELSE now)
                                 + days * TicksPerDay]
                    ELSE contacts[k]]
    /\ UNCHANGED <<campaigns, emailaccounts, emaillogs, now, fetched, pos, pc, loc,
                   scenario, edits, lastRun, probe, outbox, loop, receivedemails,
                   delivered, render>>

InitMaint ==
    /\ scenario = "maint"
    /\ campaigns = Scenario(scenario).campaigns
    /\ contacts = Scenario(scenario).contacts
    /\ emailaccounts = Scenario(scenario).accounts
    /\ emaillogs = <<>>
    /\ now = 0
    /\ fetched = [w \in Workers |-> <<>>]
    /\ pos = [w \in Workers |-> 0]
    /\ pc = [w \in Workers |-> "idle"]
    /\ loc = [w \in Workers |-> [id |-> None, sel |-> NoSelection, checkedAt |-> 0]]
    /\ edits = 0
    /\ lastRun = [c \in CampaignIds |-> NoRun]
    /\ probe = NoProbe
    /\ outbox = <<>>
    /\ loop = [w \in Workers |-> NoLoop]
    /\ receivedemails = <<>>
    /\ delivered = <<>>
    /\ render = NoRender

\* The send script and the maintenance operations on a campaign's contacts.
NextMaint ==
    \/ GetScheduledContacts("w2")
    \/ ProcessScheduledContact("w2")
    \/ Tick
    \/ \E campaign_id \in CampaignIds :
          \/ UpdateAllContactsUpcomingSequenceStatus(campaign_id)
          \/ SetAllContactsUpcomingSequenceTrue(campaign_id)
          \/ UpdateContactSchedulesForSequenceChanges(campaign_id)

SpecMaint == InitMaint /\ [][NextMaint]_vars

(***************************************************************************)
(* receive.py, the reply receiver: fetch_emails_from_account.  A string    *)
(* (subject, body, keyword list) is the sequence of its characters.        *)
(***************************************************************************)
\* str.lower() on the characters that occur.
lower_char(ch) ==
    CASE ch = "R" -> "r" [] ch = "E" -> "e" [] ch = "H" -> "h"
      [] ch = "N" -> "n" [] ch = "O" -> "o" [] ch = "Y" -> "y"
      [] OTHER -> ch

lower(str) == [i \in 1..Len(str) |-> lower_char(str[i])]

RECURSIVE lstrip(_)
lstrip(str) == IF str # <<>> /\ Head(str) = " " THEN lstrip(Tail(str)) ELSE str

RECURSIVE rstrip(_)
rstrip(str) ==
    IF str # <<>> /\ str[Len(str)] = " "
    THEN rstrip(SubSeq(str, 1, Len(str) - 1)) ELSE str

\* str.strip()
strip(str) == rstrip(lstrip(str))

\* str.split(sep) for a one-character separator.
RECURSIVE split(_, _)
split(str, sep) ==
    LET at == {i \in 1..Len(str) : str[i] = sep}
    IN  IF at = {} THEN <<str>>
        ELSE LET i == CHOOSE j \in at : \A k \in at : j <= k
             IN  <<SubSeq(str, 1, i - 1)>> \o split(SubSeq(str, i + 1, Len(str)), sep)

\* sub in text
contains(text, sub) ==
    \E i \in 1..(Len(text) - Len(sub) + 1) : SubSeq(text, i, i + Len(sub) - 1) = sub

\* [kw.strip().lower() for kw in ignore_keywords_str.split(',') if kw.strip()]
ignore_keywords(ignore_keywords_str) ==
    LET parts == split(ignore_keywords_str, ",")
    IN  {lower(strip(parts[i])) : i \in {j \in 1..Len(parts) : strip(parts[j]) # <<>>}}

\* No message is ignored.
should_ignore_email_never(subject, body, user_id) == FALSE

should_ignore_email(subject, body, user_id) ==
    /\ user_id \in DOMAIN users
    /\ users[user_id].ignoreKeywords # <<>>
    /\ strip(users[user_id].ignoreKeywords) # <<>>
    /\ LET keywords == ignore_keywords(strip(users[user_id].ignoreKeywords))
           combined_text == lower(subject) \o <<" ">> \o lower(body)
       IN  \E keyword \in keywords : contains(combined_text, keyword)

\* db.sentemails: the sends a reply can be matched to.
sentemails ==
    << [messageId |-> "s1", userId |-> "u1", campaignId |-> "c1", to |-> "alice",
        emailAccountId |-> "a1", subject |-> <<"H", "i">>, sentAt |-> 1],
       [messageId |-> "s2", userId |-> "u1", campaignId |-> "c2", to |-> "alice",
        emailAccountId |-> "a1", subject |-> <<"H", "i">>, sentAt |-> 2],
       [messageId |-> "s3", userId |-> "u1", campaignId |-> "c2", to |-> "bob",
        emailAccountId |-> "a1", subject |-> <<"h", "i", "!">>, sentAt |-> 3],
       [messageId |-> "s4", userId |-> "u1", campaignId |-> "c1", to |-> "bob",
        emailAccountId |-> "a1", subject |-> <<"H", "i">>, sentAt |-> 1] >>

\* The messages a mailbox can yield: Message-ID, From, Subject, text body,
\* In-Reply-To, References and Date, as parsed at lines 391-416.
Inbound ==
    { [messageId |-> "m1", from |-> "alice", subject |-> <<"R", "e", ":", " ", "H", "i">>,
       body |-> <<"o", "k">>, inReplyTo |-> "s1", references |-> <<"s2">>, date |-> 1],
      [messageId |-> "m2", from |-> "alice", subject |-> <<"R", "e", ":", " ", "H", "i">>,
       body |-> <<"o", "k">>, inReplyTo |-> "", references |-> <<"x9", "s2", "s1">>,
       date |-> 1],
      [messageId |-> "", from |-> "bob", subject |-> <<"H", "i">>,
       body |-> <<"o", "k">>, inReplyTo |-> "", references |-> <<>>, date |-> 2],
      [messageId |-> "m4", from |-> "carol", subject |-> <<"H", "i">>,
       body |-> <<"N", "O">>, inReplyTo |-> "s1", references |-> <<>>, date |-> 2],
      [messageId |-> "m5", from |-> "bob", subject |-> <<"r", "e", ":", " ", "Y", "o">>,
       body |-> <<"o", "k">>, inReplyTo |-> "", references |-> <<>>, date |-> 3] }

\* No stored email is found.
is_existing_never(received, msg, account_id) == FALSE

\* Lines 418-435: is there a stored email this message is a duplicate of.
is_existing(received, msg, account_id) ==
    LET by_id == msg.messageId # ""
                 /\ \E i \in 1..Len(received) :
                        /\ received[i].messageId = msg.messageId
                        /\ received[i].emailAccountId = account_id
    IN  \/ by_id
        \/ /\ msg.from # "" /\ msg.subject # <<>>
           /\ \E i \in 1..Len(received) :
                  /\ received[i].from = msg.from
                  /\ received[i].subject = msg.subject
                  /\ received[i].emailAccountId = account_id
                  /\ received[i].receivedAt = msg.date

\* re.sub(r'^(Re:|RE:|Fwd:|FWD:)\s*', '', subject, flags=re.IGNORECASE).strip()
clean_subject(subject) ==
    LET low == lower(subject)
        re == <<"r", "e", ":">>
        fwd == <<"f", "w", "d", ":">>
        rest == IF Len(low) >= 3 /\ SubSeq(low, 1, 3) = re
                THEN lstrip(SubSeq(subject, 4, Len(subject)))
                ELSE IF Len(low) >= 4 /\ SubSeq(low, 1, 4) = fwd
                     THEN lstrip(SubSeq(subject, 5, Len(subject)))
                     ELSE subject
    IN  strip(rest)

\* The least element of a set of indexes, 0 for none: what find_one returns.
first_of(indexes) ==
    IF indexes = {} THEN 0 ELSE CHOOSE i \in indexes : \A j \in indexes : i <= j

\* sent_emails_collection.find_one({'messageId': message_id, 'userId': user_id})
sent_by_message_id(message_id, user_id) ==
    first_of({i \in 1..Len(sentemails) :
                /\ sentemails[i].messageId = message_id
                /\ sentemails[i].userId = user_id})

\* Lines 228-235: the first reference, in list order, that finds a sent email.
RECURSIVE sent_by_references(_, _)
sent_by_references(references, user_id) ==
    IF references = <<>> THEN 0
    ELSE IF sent_by_message_id(Head(references), user_id) # 0
         THEN sent_by_message_id(Head(references), user_id)
         ELSE sent_by_references(Tail(references), user_id)

\* Lines 238-246: recipient, user, account and subject, latest sentAt first.
sent_by_subject(from_email, subject, user_id, email_account_id) ==
    LET hits == {i \in 1..Len(sentemails) :
                    /\ sentemails[i].to = from_email
                    /\ sentemails[i].userId = user_id
                    /\ sentemails[i].emailAccountId = email_account_id
                    /\ \/ contains(lower(sentemails[i].subject),
                                    lower(clean_subject(subject)))
                       \/ sentemails[i].subject = subject}
    IN  IF hits = {} THEN 0
        ELSE CHOOSE i \in hits : \A j \in hits : sentemails[j].sentAt <= sentemails[i].sentAt

\* The references are tried before In-Reply-To.
find_related_sent_email_references_first(from_email, subject, in_reply_to, references, user_id, email_account_id) ==
    IF sent_by_references(references, user_id) # 0
    THEN sent_by_references(references, user_id)
    ELSE IF in_reply_to # "" /\ sent_by_message_id(in_reply_to, user_id) # 0
         THEN sent_by_message_id(in_reply_to, user_id)
         ELSE sent_by_subject(from_email, subject, user_id, email_account_id)

\* The index in sentemails of the sent email this is a reply to, 0 for None.
find_related_sent_email(from_email, subject, in_reply_to, references, user_id, email_account_id) ==
    IF in_reply_to # "" /\ sent_by_message_id(in_reply_to, user_id) # 0
    THEN sent_by_message_id(in_reply_to, user_id)
    ELSE IF sent_by_references(references, user_id) # 0
         THEN sent_by_references(references, user_id)
         ELSE sent_by_subject(from_email, subject, user_id, email_account_id)

\* The ids insert_one gives to new contacts, in order.
NewContactIds == <<"n1", "n2", "n3", "n4", "n5", "n6", "n7", "n8">>

\* contacts_collection.find_one({'email': email_address, 'userId': user_id})
find_contact(conts, email_address, user_id) ==
    {k \in DOMAIN conts : conts[k].email = email_address /\ conts[k].userId = user_id}

new_contact_id(conts) ==
    NewContactIds[first_of({i \in 1..Len(NewContactIds) :
                              NewContactIds[i] \notin DOMAIN conts})]

\* A new contact is inserted for every message.
find_or_create_contact_always(conts, email_address, user_id) ==
    [id |-> new_contact_id(conts),
     contacts |-> [k \in DOMAIN conts \cup {new_contact_id(conts)} |->
                     IF k \in DOMAIN conts THEN conts[k]
                     ELSE [email |-> email_address, userId |-> user_id,
                           status |-> "active", source |-> "email_reply"]]]

\* The contact's id and the collection after the call.
find_or_create_contact(conts, email_address, user_id) ==
    IF find_contact(conts, email_address, user_id) # {}
    THEN [id |-> CHOOSE k \in find_contact(conts, email_address, user_id) : TRUE,
          contacts |-> conts]
    ELSE [id |-> new_contact_id(conts),
          contacts |-> [k \in DOMAIN conts \cup {new_contact_id(conts)} |->
                          IF k \in DOMAIN conts THEN conts[k]
                          ELSE [email |-> email_address, userId |-> user_id,
                                status |-> "active", source |-> "email_reply"]]]

\* any(indicator in subject_lower for indicator in ['re:', 'reply', 'response'])
is_likely_reply(subject) ==
    \/ contains(lower(subject), <<"r", "e", ":">>)
    \/ contains(lower(subject), <<"r", "e", "p", "l", "y">>)
    \/ contains(lower(subject), <<"r", "e", "s", "p", "o", "n", "s", "e">>)

\* The contacts the receiver starts with: alice is a contact of u1.
InitialContacts ==
    [k \in {"k1"} |-> [email |-> "alice", userId |-> "u1", status |-> "active",
                       source |-> "import"]]

InitReceive ==
    /\ scenario = "inbound"
    /\ campaigns = [c \in CampaignIds |->
                      Campaign("u1", TRUE, <<"a1">>, <<"k1">>, <<Step(0, TRUE)>>,
                               AlwaysOpen)]
    /\ contacts = InitialContacts
    /\ emailaccounts = [a \in {"a1", "a2"} |->
                          [userId |-> IF a = "a1" THEN "u1" ELSE "u2", isActive |-> TRUE]]
    /\ emaillogs = <<>>
    /\ now = 0
    /\ fetched = [w \in Workers |-> <<>>]
    /\ pos = [w \in Workers |-> 0]
    /\ pc = [w \in Workers |-> "idle"]
    /\ loc = [w \in Workers |-> [id |-> None, sel |-> NoSelection, checkedAt |-> 0]]
    /\ edits = 0
    /\ lastRun = [c \in CampaignIds |-> NoRun]
    /\ probe = NoProbe
    /\ outbox = <<>>
    /\ loop = [w \in Workers |-> NoLoop]
    /\ receivedemails = <<>>
    /\ delivered = <<>>
    /\ render = NoRender

\* One iteration of "for msg_id in message_ids" of fetch_emails_from_account:
\* the mailbox of account_id yields msg.  The message is skipped as a
\* duplicate, skipped by the ignore list, or stored with its contact, its
\* related sent email and the campaign's stats.replied.
FetchEmail(account_id, msg) ==
    /\ Len(delivered) < MaxFeeds
    /\ delivered' = Append(delivered, [account |-> account_id, msg |-> msg])
    /\ LET user_id == emailaccounts[account_id].userId
           related == find_related_sent_email(msg.from, msg.subject, msg.inReplyTo,
                                              msg.references, user_id, account_id)
           is_reply == related # 0
           campaign_id == IF is_reply THEN sentemails[related].campaignId ELSE None
           contact == find_or_create_contact(contacts, msg.from, user_id)
       IN  IF \/ is_existing(receivedemails, msg, account_id)
              \/ should_ignore_email(msg.subject, msg.body, user_id)
           THEN UNCHANGED <<receivedemails, contacts, campaigns>>
           ELSE /\ contacts' = contact.contacts
                /\ receivedemails' = Append(receivedemails,
                       [userId |-> user_id, emailAccountId |-> account_id,
                        contactId |-> contact.id, campaignId |-> campaign_id,
                        from |-> msg.from, subject |-> msg.subject,
                        content |-> msg.body, messageId |-> msg.messageId,
                        inReplyTo |-> msg.inReplyTo, references |-> msg.references,
                        isReply |-> is_reply \/ is_likely_reply(msg.subject),
                        sentEmailId |-> IF is_reply THEN sentemails[related].messageId
                                        ELSE None,
                        receivedAt |-> msg.date])
                /\ campaigns' = IF campaign_id \in DOMAIN campaigns /\ is_reply
                                THEN [campaigns EXCEPT ![campaign_id].statsReplied = @ + 1]
                                ELSE campaigns
    /\ UNCHANGED <<emailaccounts, emaillogs, now, fetched, pos, pc, loc, scenario,
                   edits, lastRun, probe, outbox, loop, render>>

NextReceive == \E account_id \in DOMAIN emailaccounts : \E msg \in Inbound :
                  FetchEmail(account_id, msg)

SpecReceive == InitReceive /\ [][NextReceive]_vars

(***************************************************************************)
(* content_processing.py: personalize_content.  A text is the sequence of  *)
(* its tokens: the brackets "{{" and "}}", field names and other pieces of *)
(* text; the placeholder of a field is <<"{{", field, "}}">>.              *)
(***************************************************************************)
placeholder(field) == <<"{{", field, "}}">>

\* str.replace(old, new): every occurrence of old, from the left.
RECURSIVE replace(_, _, _)
replace(str, old, new) ==
    IF Len(str) < Len(old) THEN str
    ELSE IF SubSeq(str, 1, Len(old)) = old
         THEN new \o replace(SubSeq(str, Len(old) + 1, Len(str)), old, new)
         ELSE <<Head(str)>> \o replace(Tail(str), old, new)

\* contact.get(field, '')
contact_get(contact, field) ==
    IF field \in DOMAIN contact THEN contact[field] ELSE <<>>

\* The keys of the personalizations dict, in its order.
personalization_fields ==
    <<"firstName", "lastName", "fullName", "company", "position", "email", "phone",
      "website", "city", "state", "country", "industry", "personalization">>

\* The value of one entry of the personalizations dict.
personalization_value(contact, field) ==
    IF field = "fullName"
    THEN strip(contact_get(contact, "firstName") \o <<" ">>
               \o contact_get(contact, "lastName"))
    ELSE contact_get(contact, field)

\* Lines 112-121: the placeholders are replaced one after the other, an
\* empty value by nothing, and the result is stripped.
personalize_content(content, contact) ==
    LET F[i \in 0..Len(personalization_fields)] ==
            IF i = 0 THEN content
            ELSE replace(F[i - 1], placeholder(personalization_fields[i]),
                         personalization_value(contact, personalization_fields[i]))
    IN  strip(F[Len(personalization_fields)])

\* The subject and content templates tried.
ProbeContents ==
    { <<"Hi", " ", "{{", "firstName", "}}">>,
      <<"{{", "fullName", "}}", " ", "at", " ", "{{", "company", "}}">>,
      <<"Hi", " ", "{{", "firstName", "}}", " ", "{{", "lastName", "}}", " ">>,
      <<"{{", "email", "}}", "{{", "phone", "}}">>,
      <<"Best", " ", "{{", "fromName", "}}">>,
      <<"{{", "{{", "email", "}}", "firstName", "}}">>,
      <<"Hi">> }

\* The contacts tried: a missing field is read as ''.
ProbeContacts ==
    [firstName : {<<>>, <<"Al">>},
     lastName : {<<>>, <<"Bo">>},
     company : {<<>>, <<"Co">>, <<"{{", "firstName", "}}">>},
     email : {<<>>, <<"a@x">>}]

InitRender ==
    /\ scenario = "render"
    /\ \E content \in ProbeContents : \E contact \in ProbeContacts :
          render = [content |-> content, contact |-> contact, done |-> FALSE,
                    result |-> <<>>]
    /\ campaigns = Scenario("A").campaigns
    /\ contacts = Scenario("A").contacts
    /\ emailaccounts = Scenario("A").accounts
    /\ emaillogs = <<>>
    /\ now = 0
    /\ fetched = [w \in Workers |-> <<>>]
    /\ pos = [w \in Workers |-> 0]
    /\ pc = [w \in Workers |-> "idle"]
    /\ loc = [w \in Workers |-> [id |-> None, sel |-> NoSelection, checkedAt |-> 0]]
    /\ edits = 0
    /\ lastRun = [c \in CampaignIds |-> NoRun]
    /\ probe = NoProbe
    /\ outbox = <<>>
    /\ loop = [w \in Workers |-> NoLoop]
    /\ receivedemails = <<>>
    /\ delivered = <<>>

\* get_personalized_subject / get_personalized_content in manual mode: one
\* call of personalize_content.
PersonalizeContent ==
    /\ ~render.done
    /\ render' = [render EXCEPT !.done = TRUE,
                                !.result = personalize_content(render.content,
                                                               render.contact)]
    /\ UNCHANGED <<campaigns, contacts, emailaccounts, emaillogs, now, fetched, pos,
                   pc, loc, scenario, edits, lastRun, probe, outbox, loop,
                   receivedemails, delivered>>

NextRender == PersonalizeContent

SpecRender == InitRender /\ [][NextRender]_vars

(***************************************************************************)
(* The polling loops under unexpected exceptions: start.py with            *)
(* process_campaigns (process "w1") and main() of receive.py (process      *)
(* "w2").  loop[w].failed says that the last cycle of w ended in an        *)
(* exception handler, loop[w].slept the seconds the handler slept.         *)
(***************************************************************************)
LoopScenarios == {"A", "steps"}

InitLoop == Init /\ scenario \in LoopScenarios

\* process_campaigns: fetch_active_campaigns raises (the store is
\* unreachable); the handler of line 55 returns False and start.py's
\* `while True` calls process_campaigns again.
FetchRaises(w) ==
    /\ pc[w] = "idle" /\ pos[w] = 0
    /\ loop' = [loop EXCEPT ![w] = [failed |-> TRUE, slept |-> 0]]
    /\ UNCHANGED <<campaigns, contacts, emailaccounts, emaillogs, now, fetched,
                   pos, pc, loc, scenario, edits, lastRun, probe, outbox,
                   receivedemails, delivered, render>>

\* main() of receive.py: an exception anywhere in the cycle reaches the
\* handler of line 1200, which sleeps 30 seconds before the next iteration.
ScheduledCycleRaises(w) ==
    /\ pc[w] = "idle"
    /\ pos' = [pos EXCEPT ![w] = 0]
    /\ loop' = [loop EXCEPT ![w] = [failed |-> TRUE, slept |-> 30]]
    /\ UNCHANGED <<campaigns, contacts, emailaccounts, emaillogs, now, fetched,
                   pc, loc, scenario, edits, lastRun, probe, outbox,
                   receivedemails, delivered, render>>

NextLoop ==
    \/ Fetch("w1")
    \/ FetchRaises("w1")
    \/ ProcessCampaign("w1")
    \/ GetScheduledContacts("w2")
    \/ ScheduledCycleRaises("w2")
    \/ ProcessScheduledContact("w2")
    \/ Tick

SpecLoop == InitLoop /\ [][NextLoop]_vars

\* The worker alone, its polling cycles repeated fairly: run() starts a cycle
\* after every sleep (start.py) and a started cycle processes every campaign
\* it fetched.  The clock is not forced to advance.
NextProgress ==
    \/ Fetch("w1")
    \/ ProcessCampaign("w1")
    \/ Tick

SpecProgress ==
    /\ InitLoop /\ [][NextProgress]_vars
    /\ WF_vars(Fetch("w1")) /\ WF_vars(ProcessCampaign("w1"))

\* The worker and the reply receiver on one store: the documents carry the
\* fields both read.
InitShare ==
    /\ scenario \in LoopScenarios
    /\ campaigns = Scenario(scenario).campaigns
    /\ contacts = [k \in DOMAIN Scenario(scenario).contacts |->
                      Scenario(scenario).contacts[k] @@
                      [email |-> "dave", userId |-> "u1", source |-> "import"]]
    /\ emailaccounts = [a \in DOMAIN Scenario(scenario).accounts |->
                          Scenario(scenario).accounts[a] @@
                          [userId |-> "u1", isActive |-> TRUE]]
    /\ emaillogs = <<>>
    /\ now = 0
    /\ fetched = [w \in Workers |-> <<>>]
    /\ pos = [w \in Workers |-> 0]
    /\ pc = [w \in Workers |-> "idle"]
    /\ loc = [w \in Workers |-> [id |-> None, sel |-> NoSelection, checkedAt |-> 0]]
    /\ edits = 0
    /\ lastRun = [c \in CampaignIds |-> NoRun]
    /\ probe = NoProbe
    /\ outbox = <<>>
    /\ loop = [w \in Workers |-> NoLoop]
    /\ receivedemails = <<>>
    /\ delivered = <<>>
    /\ render = NoRender

\* fetch_emails_for_account yielding the recipient's reply to the email of
\* the i-th log: its In-Reply-To is the messageId of that log.
FetchReply(account_id, i) ==
    /\ i \in 1..Len(emaillogs)
    /\ FetchEmail(account_id,
          [messageId |-> <<"r1", "r2", "r3", "r4", "r5", "r6">>[i],
           from |-> contacts[emaillogs[i].contactId].email,
           subject |-> <<"R", "e", ":", " ", "Y", "o">>, body |-> <<"o", "k">>,
           inReplyTo |-> emaillogs[i].messageId, references |-> <<>>, date |-> now])

NextShare ==
    \/ Fetch("w1")
    \/ ProcessCampaign("w1")
    \/ Tick
    \/ \E account_id \in DOMAIN emailaccounts : \E i \in 1..MaxLogs :
          FetchReply(account_id, i)

SpecShare == InitShare /\ [][NextShare]_vars

(***************************************************************************)
(* The worker on a store with many campaigns: ids 1..MaxCampaigns, the     *)
(* highest id the latest.  Only the latest campaign has a contact; the     *)
(* others end at the required-data check of process_single_campaign.       *)
(***************************************************************************)
ManyCampaignIds == 1..MaxCampaigns

ManyLatestFirst == [i \in 1..MaxCampaigns |-> MaxCampaigns + 1 - i]

ManyCampaign(c, isActive) ==
    Campaign("u1", isActive, <<"a1">>, IF c = MaxCampaigns THEN <<"k1">> ELSE <<>>,
             <<Step(0, TRUE)>>, AlwaysOpen)

InitMany ==
    /\ scenario = "many"
    /\ \E inactive \in {S \in SUBSET ManyCampaignIds : Cardinality(S) <= 1} :
          campaigns = [c \in ManyCampaignIds |-> ManyCampaign(c, c \notin inactive)]
    /\ contacts = [k \in {"k1"} |-> Contact("active")]
    /\ emailaccounts = [a \in {"a1"} |-> Account(3)]
    /\ emaillogs = <<>>
    /\ now = 0
    /\ fetched = [w \in Workers |-> <<>>]
    /\ pos = [w \in Workers |-> 0]
    /\ pc = [w \in Workers |-> "idle"]
    /\ loc = [w \in Workers |-> [id |-> None, sel |-> NoSelection, checkedAt |-> 0]]
    /\ edits = 0
    /\ lastRun = [c \in ManyCampaignIds |-> NoRun]
    /\ probe = NoProbe
    /\ outbox = <<>>
    /\ loop = [w \in Workers |-> NoLoop]
    /\ receivedemails = <<>>
    /\ delivered = <<>>
    /\ render = NoRender

\* process_campaigns, line 15, on the store with many campaigns.
FetchMany(w) ==
    /\ pc[w] = "idle" /\ pos[w] = 0
    /\ find_active_latest(ManyLatestFirst, campaigns, fetch_limit) # <<>>
    /\ fetched' = [fetched EXCEPT ![w] =
                      find_active_latest(ManyLatestFirst, campaigns, fetch_limit)]
    /\ pos' = [pos EXCEPT ![w] = 1]
    /\ loop' = [loop EXCEPT ![w] = NoLoop]
    /\ UNCHANGED <<campaigns, contacts, emailaccounts, emaillogs, now, pc, loc,
                   scenario, edits, lastRun, probe, outbox, receivedemails,
                   delivered, render>>

NextMany ==
    \/ FetchMany("w1")
    \/ ProcessCampaign("w1")
    \/ Tick

SpecMany == InitMany /\ [][NextMany]_vars

(***************************************************************************)
(* The schedule evaluator on its own: is_within_schedule called once with  *)
(* a schedule, a timezone name and a local clock reading of the model's    *)
(* choice.                                                                 *)
(***************************************************************************)
ProbeSchedules ==
    { Window(<<21, 0>>, <<5, 0>>, {5}),
      Window(<<22, 0>>, <<6, 0>>, {1, 2, 3, 4, 5}),
      Window(<<9, 0>>, <<17, 0>>, {1, 2, 3, 4, 5}),
      Window(<<9, 0>>, <<17, 0>>, {1}) }
ProbeMinutes == {0, 60, 5 * 60, 5 * 60 + 1, 9 * 60, 12 * 60, 17 * 60, 21 * 60,
                 23 * 60 + 30, 23 * 60 + 59}
ProbeTimezones == {"UTC", "Asia/Dhaka", "Mars/Olympus"}

InitSched ==
    /\ scenario = "A"
    /\ campaigns = Scenario(scenario).campaigns
    /\ contacts = Scenario(scenario).contacts
    /\ emailaccounts = Scenario(scenario).accounts
    /\ emaillogs = <<>>
    /\ now = 0
    /\ fetched = [w \in Workers |-> <<>>]
    /\ pos = [w \in Workers |-> 0]
    /\ pc = [w \in Workers |-> "idle"]
    /\ loc = [w \in Workers |-> [id |-> None, sel |-> NoSelection, checkedAt |-> 0]]
    /\ edits = 0
    /\ lastRun = [c \in CampaignIds |-> NoRun]
    /\ outbox = <<>>
    /\ loop = [w \in Workers |-> NoLoop]
    /\ receivedemails = <<>>
    /\ delivered = <<>>
    /\ render = NoRender
    /\ probe \in [schedule : ProbeSchedules, timezone : ProbeTimezones,
                   weekday : 0..6, minutes : ProbeMinutes,
                   done : {FALSE}, result : {FALSE}, can_send : {FALSE}]

\* The call of is_within_schedule (worker, send.py) and the call of
\* can_send_email_now (receive.py) on the same campaign at the same instant.
Evaluate ==
    /\ ~probe.done
    /\ probe' = [probe EXCEPT
                    !.done = TRUE,
                    !.result = is_within_schedule_at([schedule |-> probe.schedule],
                                                     probe.timezone, probe.weekday,
                                                     probe.minutes),
                    !.can_send = can_send_email_now_at([schedule |-> probe.schedule],
                                                       probe.timezone, probe.weekday,
                                                       probe.minutes)]
    /\ UNCHANGED <<campaigns, contacts, emailaccounts, emaillogs, now, fetched,
                   pos, pc, loc, scenario, edits, lastRun, outbox, loop, receivedemails, delivered, render>>

NextSched == Evaluate

SpecSched == InitSched /\ [][NextSched]_vars

(***************************************************************************)
(* Properties.                                                             *)
(***************************************************************************)
IsSuccess(l) == l.status \in SuccessStatuses

\* The sequenceStep values of the successful logs of (contact, campaign), in
\* the order the logs were written (sentAt never decreases along emaillogs).
success_steps(k, c) ==
    LET F[i \in 0..Len(emaillogs)] ==
            IF i = 0 THEN <<>>
            ELSE IF /\ emaillogs[i].contactId = k
                    /\ emaillogs[i].campaignId = c
                    /\ IsSuccess(emaillogs[i])
                 THEN Append(F[i - 1], emaillogs[i].sequenceStep)
                 ELSE F[i - 1]
    IN  F[Len(emaillogs)]

InRing(k, c) == \E i \in 1..Len(campaigns[c].contactIds) : campaigns[c].contactIds[i] = k

\* C1 (P1, sequence ordering): for every contact and every campaign, the
\* successful email logs of that pair carry the steps 0, 1, ..., n-1 in the
\* order they were sent: no repeated step, no gap, starting at 0.
C1_SequenceOrdering ==
    \A c \in CampaignIds : \A k \in DOMAIN contacts :
        LET steps == success_steps(k, c)
        IN  \A i \in 1..Len(steps) : steps[i] = i - 1

\* The number of successful logs of an account on one UTC day.
sent_on_day(a, day) ==
    Cardinality({i \in 1..Len(emaillogs) :
        /\ emaillogs[i].emailAccountId = a
        /\ utc_day(emaillogs[i].sentAt) = day
        /\ IsSuccess(emaillogs[i])})

\* C2 (P2, daily cap): for every account and every UTC day the number of
\* successful logs of the account on that day is at most its dailyLimit, and
\* every log is attributed to an account whose sends-today count was strictly
\* below dailyLimit when it was selected.
C2_DailyCap ==
    /\ \A a \in DOMAIN emailaccounts : \A day \in 0..utc_day(MaxTime) :
            sent_on_day(a, day) <= emailaccounts[a].dailyLimit
    /\ \A i \in 1..Len(emaillogs) :
            emaillogs[i].sentTodayAtSelection
                < emailaccounts[emaillogs[i].emailAccountId].dailyLimit

\* An account has used up its cap today and a campaign that selected it was
\* skipped for that reason.
C2_Witness ==
    \E c \in CampaignIds :
        /\ lastRun[c].gate = "daily_limit"
        /\ sent_on_day(lastRun[c].account, utc_day(now))
              = emailaccounts[lastRun[c].account].dailyLimit
        /\ emailaccounts[lastRun[c].account].dailyLimit > 0

\* C3 (P3, delay enforcement): consecutive steps k-1 and k sent to a contact
\* in a campaign are at least delayDays of step k-1 apart, and a contact with
\* timesContacted = 1 whose step-0 send is more recent than the delayDays of
\* step 0 is rejected by the delay gate.
C3_DelayOfSentStep ==
    /\ \A i \in 1..Len(emaillogs) : \A j \in 1..Len(emaillogs) :
            (/\ i < j
             /\ IsSuccess(emaillogs[i]) /\ IsSuccess(emaillogs[j])
             /\ emaillogs[i].contactId = emaillogs[j].contactId
             /\ emaillogs[i].campaignId = emaillogs[j].campaignId
             /\ emaillogs[j].sequenceStep = emaillogs[i].sequenceStep + 1)
            => emaillogs[j].sentAt - emaillogs[i].sentAt >=
                 campaigns[emaillogs[i].campaignId]
                    .sequences[emaillogs[i].sequenceStep + 1].delayDays * TicksPerDay
    /\ \A c \in CampaignIds : \A k \in DOMAIN contacts :
            LET last == last_email_sentAt(emaillogs, k, c, 0)
            IN  (/\ InRing(k, c)
                 /\ contacts[k].timesContacted = 1
                 /\ Len(campaigns[c].sequences) > 1
                 /\ last # NoTime
                 /\ now - last < campaigns[c].sequences[1].delayDays * TicksPerDay)
                => ~check_sequence_delay(emaillogs, campaigns, k, c, 1, now)

\* C4 (P4, schedule confinement): the sentAt of every successful email log,
\* in the campaign owner's timezone, is inside the campaign's sending hours
\* on one of its sending days.
C4_ScheduleConfinement ==
    \A i \in 1..Len(emaillogs) :
        IsSuccess(emaillogs[i]) =>
            LET doc == campaigns[emaillogs[i].campaignId]
            IN  is_within_schedule(doc, users[doc.userId].timezone, emaillogs[i].sentAt)

\* The indices in emaillogs of the successful logs of campaign c, in order.
campaign_sends(c) ==
    LET F[i \in 0..Len(emaillogs)] ==
            IF i = 0 THEN <<>>
            ELSE IF emaillogs[i].campaignId = c /\ IsSuccess(emaillogs[i])
                 THEN Append(F[i - 1], i)
                 ELSE F[i - 1]
    IN  F[Len(emaillogs)]

\* C6 (P6, rotation fairness): over any N consecutive successful sends of a
\* campaign during which every account of its ring is under its cap, each
\* account of the ring of size M is the sending account at least N div M
\* times.
C6_RotationFairness ==
    \A c \in CampaignIds :
        LET sends == campaign_sends(c)
            ring == campaigns[c].emailAccountIds
        IN  \A lo \in 1..Len(sends) : \A hi \in lo..Len(sends) :
                (/\ edits = 0
                 /\ \A n \in lo..hi : emaillogs[sends[n]].ringUnderCap)
                => \A m \in 1..Len(ring) :
                      Cardinality({n \in lo..hi :
                                     emaillogs[sends[n]].emailAccountId = ring[m]})
                        >= (hi - lo + 1) \div Len(ring)

\* C7 (Scenario A): two accounts with dailyLimit 1, stored cursor 0, one
\* contact, one step, window open: the first cycle sends from
\* emailAccountIds[0], whose sends-today count is then 1, and the cycle after
\* it selects emailAccountIds[1].
C7_ScenarioA ==
    scenario = "A" =>
        LET ring == campaigns["c1"].emailAccountIds
        IN  /\ Len(emaillogs) >= 1 =>
                /\ emaillogs[1].emailAccountId = ring[1]
                /\ sent_on_day(ring[1], utc_day(emaillogs[1].sentAt)) = 1
            /\ lastRun["c1"].prevGate = "ok" => lastRun["c1"].account = ring[2]

\* C8 (capped accounts are skipped within one cycle): a campaign whose ring
\* holds an account under its cap is not skipped for 'daily limit reached',
\* and the account the selector returns is under its cap.
C8_SkipsCappedAccounts ==
    \A c \in CampaignIds :
        (lastRun[c].someUnderCap /\ lastRun[c].account # None)
        => /\ lastRun[c].gate # "daily_limit"
           /\ lastRun[c].account \notin lastRun[c].capped

\* Whether the last processing of c got as far as reading the rings.
ReadRings(c) ==
    lastRun[c].gate \notin {"", "no_userId", "no_user", "schedule", "missing_data"}

\* C9 (rotation cursor range): the index used to read either ring is within
\* [0, len(ring)), and a stored cursor found out of range is treated as 0:
\* the ring is read where a cursor of 0 points, at index 0 or, with the
\* rotation that precedes the read, at index (0 + 1) mod len.
C9_CursorRange ==
    \A c \in CampaignIds :
        ReadRings(c) =>
            /\ lastRun[c].idxA \in 0..(lastRun[c].lenA - 1)
            /\ lastRun[c].idxC \in 0..(lastRun[c].lenC - 1)
            /\ lastRun[c].cursorA >= lastRun[c].lenA
                  => lastRun[c].idxA \in {0, 1 % lastRun[c].lenA}
            /\ lastRun[c].cursorC >= lastRun[c].lenC
                  => lastRun[c].idxC \in {0, 1 % lastRun[c].lenC}

\* C5 (step ordering under concurrency): with two orchestrator instances on
\* one store no contact gets the same sequence step of a campaign twice: no
\* two successful logs of one (contact, campaign) carry the same step, and a
\* successful log of step N > 0 follows one of step N-1 to that contact.
C5_NoDoubleSend ==
    \A j \in 1..Len(emaillogs) :
        IsSuccess(emaillogs[j]) =>
            /\ \A i \in 1..(j - 1) :
                  (/\ IsSuccess(emaillogs[i])
                   /\ emaillogs[i].contactId = emaillogs[j].contactId
                   /\ emaillogs[i].campaignId = emaillogs[j].campaignId)
                  => emaillogs[i].sequenceStep # emaillogs[j].sequenceStep
            /\ emaillogs[j].sequenceStep > 0 =>
                  \E i \in 1..(j - 1) :
                      /\ IsSuccess(emaillogs[i])
                      /\ emaillogs[i].contactId = emaillogs[j].contactId
                      /\ emaillogs[i].sequenceStep = emaillogs[j].sequenceStep - 1

\* JavaScript weekday numbers (0=Sunday .. 6=Saturday) of the days named.
Friday == (4 + 1) % 7
\* Python weekday() numbers (0=Monday .. 6=Sunday).
PyFriday == EpochWeekday
PySaturday == (PyFriday + 1) % 7

IsOvernight(schedule) ==
    to_minutes(schedule.sendingHours.start) > to_minutes(schedule.sendingHours.end)

\* C10 (Scenario C, effective weekday of an overnight window): with hours
\* 21:00-05:00 and sendingDays = {Friday}, Saturday 01:00 local is in-window
\* and Friday 01:00 local is not; in general, for an overnight window and
\* now <= end the day check is made on the previous weekday.
C10_EffectiveWeekday ==
    (probe.done /\ probe.timezone \in KnownTimezones /\ IsOvernight(probe.schedule)
       /\ probe.minutes <= to_minutes(probe.schedule.sendingHours.end))
    => LET previousJsWeekday == (((probe.weekday + 6) % 7) + 1) % 7
       IN  /\ probe.result = (previousJsWeekday \in probe.schedule.sendingDays)
           /\ (/\ probe.schedule = Window(<<21, 0>>, <<5, 0>>, {Friday})
                /\ probe.minutes = 60)
               => /\ probe.weekday = PySaturday => probe.result
                  /\ probe.weekday = PyFriday => ~probe.result

\* The hour rule: start <= now <= end, or for start > end (overnight)
\* now >= start or now <= end; both bounds inclusive.
InHours(schedule, current_minutes) ==
    LET start == to_minutes(schedule.sendingHours.start)
        end == to_minutes(schedule.sendingHours.end)
    IN  \/ start <= end /\ start <= current_minutes /\ current_minutes <= end
        \/ start > end /\ (current_minutes >= start \/ current_minutes <= end)

\* C11 (hour check): on a day each evaluator accepts, is_within_schedule and
\* can_send_email_now both report in-hours exactly when the hour rule holds,
\* overnight windows included.
C11_HourCheck ==
    (probe.done /\ probe.timezone \in KnownTimezones)
    => /\ ((probe.weekday + 1) % 7) \in probe.schedule.sendingDays
            => probe.result = InHours(probe.schedule, probe.minutes)
       /\ probe.weekday \in probe.schedule.sendingDays
            => probe.can_send = InHours(probe.schedule, probe.minutes)

PyMonday == 0
Monday == (PyMonday + 1) % 7

\* C12 (weekday numbering): inside the hours, each evaluator accepts exactly
\* the local weekdays whose number in 0=Sunday..6=Saturday is in sendingDays;
\* sendingDays = {1} allows Monday and only Monday.
C12_WeekdayNumbering ==
    (probe.done /\ probe.timezone \in KnownTimezones
       /\ ~IsOvernight(probe.schedule) /\ InHours(probe.schedule, probe.minutes))
    => LET canonical == (probe.weekday + 1) % 7
       IN  /\ probe.result = (canonical \in probe.schedule.sendingDays)
           /\ probe.can_send = (canonical \in probe.schedule.sendingDays)
           /\ probe.schedule.sendingDays = {Monday}
                => /\ probe.result = (probe.weekday = PyMonday)
                   /\ probe.can_send = (probe.weekday = PyMonday)

\* C13 (timezone fallback): with an unrecognized timezone name each
\* evaluator returns what it returns for timezone "UTC" at that instant.
C13_TimezoneFallback ==
    (probe.done /\ probe.timezone \notin KnownTimezones)
    => /\ probe.result = is_within_schedule_at([schedule |-> probe.schedule], "UTC",
                                               probe.weekday, probe.minutes)
       /\ probe.can_send = can_send_email_now_at([schedule |-> probe.schedule], "UTC",
                                                 probe.weekday, probe.minutes)

\* C14 (contact eligibility): every email log of the worker and every send
\* of the due-schedule path goes to a contact whose status is 'active' and
\* whose emailStatus is not 'bounced'.
C14_ContactEligibility ==
    /\ \A i \in 1..Len(emaillogs) :
            /\ contacts[emaillogs[i].contactId].status = "active"
            /\ contacts[emaillogs[i].contactId].emailStatus # "bounced"
    /\ \A i \in 1..Len(outbox) :
            /\ contacts[outbox[i].to].status = "active"
            /\ contacts[outbox[i].to].emailStatus # "bounced"

\* The positions in sequences (0-based) of the steps with isActive true.
active_positions(sequences) ==
    LET F[i \in 0..Len(sequences)] ==
            IF i = 0 THEN <<>>
            ELSE IF sequences[i].isActive THEN Append(F[i - 1], i - 1) ELSE F[i - 1]
    IN  F[Len(sequences)]

\* Whether the last processing of c read the contact's timesContacted.
ReadStep(c) == lastRun[c].gate \in {"exhausted", "delay", "inactive", "ok"}

\* C15 (active-filtered step indexing): the step sent to a contact with
\* timesContacted = n is the n-th of the active steps, the contact counts as
\* exhausted exactly when n >= the number of active steps, and no contact
\* with an active step to come is skipped for an inactive step.
C15_ActiveFilteredIndexing ==
    \A c \in CampaignIds :
        ReadStep(c) =>
            LET n == lastRun[c].step
                active == active_positions(campaigns[c].sequences)
            IN  /\ (lastRun[c].gate = "exhausted") = (n >= Len(active))
                /\ lastRun[c].gate # "inactive"
                /\ lastRun[c].gate = "ok" =>
                      \E i \in 1..Len(emaillogs) :
                          /\ emaillogs[i].campaignId = c
                          /\ emaillogs[i].contactId = lastRun[c].contact
                          /\ emaillogs[i].sequenceStep = active[n + 1]

\* C16 (delay gate fails closed): a contact of a campaign with
\* timesContacted = n > 0 and no successful log of step n-1 in that campaign
\* is rejected by the delay gate, whatever the delay.
C16_DelayFailsClosed ==
    \A c \in CampaignIds : \A k \in DOMAIN contacts :
        LET n == contacts[k].timesContacted
        IN  (/\ InRing(k, c)
             /\ n > 0 /\ n < Len(campaigns[c].sequences)
             /\ last_email_sentAt(emaillogs, k, c, n - 1) = NoTime)
            => ~check_sequence_delay(emaillogs, campaigns, k, c, n, now)

\* The gates that stop a campaign's processing.
FailedGates ==
    {"no_userId", "no_user", "schedule", "missing_data", "exception", "no_account",
     "daily_limit", "no_contact", "contact_status", "exhausted", "delay", "inactive"}

\* C17 (gate failures are skips): a campaign stopped by a gate sends nothing
\* and the cycle goes on with the next campaign of the list it fetched, or
\* ends after the last one.
C17_GateFailuresAreSkips ==
    [][(/\ pos["w1"] \in 1..Len(fetched["w1"])
        /\ pos'["w1"] # pos["w1"]
        /\ lastRun'[fetched["w1"][pos["w1"]].id].gate \in FailedGates)
       => /\ pos'["w1"] = IF pos["w1"] < Len(fetched["w1"]) THEN pos["w1"] + 1 ELSE 0
          /\ fetched' = fetched
          /\ emaillogs' = emaillogs]_vars

\* A cycle in which the first campaign was stopped by a gate and the second
\* one was processed and sent.
C17_Witness ==
    /\ Len(fetched["w1"]) = 2 /\ pos["w1"] = 0
    /\ lastRun[fetched["w1"][1].id].gate \in FailedGates
    /\ lastRun[fetched["w1"][2].id].gate = "ok"
    /\ lastRun[fetched["w1"][2].id].prevGate = ""

\* The number of successful logs whose field holds the id.
successes(field, id) ==
    Cardinality({i \in 1..Len(emaillogs) :
                    IsSuccess(emaillogs[i]) /\ emaillogs[i][field] = id})

\* The sentAt of the latest successful log whose field holds the id, NoTime
\* if none.
last_success_at(field, id) ==
    LET F[i \in 0..Len(emaillogs)] ==
            IF i = 0 THEN NoTime
            ELSE IF IsSuccess(emaillogs[i]) /\ emaillogs[i][field] = id
                 THEN emaillogs[i].sentAt ELSE F[i - 1]
    IN  F[Len(emaillogs)]

\* C18 (commit on success is one unit): between the worker's steps every
\* successful send has raised the contact's timesContacted by 1 and set its
\* emailStatus, lastContacted and lastSent, raised the campaign's emailSent
\* and stats.sent by 1, and set the account's lastUsed and raised its
\* sentToday by 1.
C18_CommitOnSuccess ==
    /\ \A k \in DOMAIN contacts :
          /\ contacts[k].timesContacted = successes("contactId", k)
          /\ successes("contactId", k) > 0 =>
                /\ contacts[k].emailStatus = "sent"
                /\ contacts[k].lastContacted = last_success_at("contactId", k)
                /\ contacts[k].lastSent = last_success_at("contactId", k)
    /\ \A c \in CampaignIds :
          /\ campaigns[c].emailSent = successes("campaignId", c)
          /\ campaigns[c].statsSent = successes("campaignId", c)
    /\ \A a \in DOMAIN emailaccounts :
          /\ emailaccounts[a].lastUsed = last_success_at("emailAccountId", a)
          /\ emailaccounts[a].sentToday = successes("emailAccountId", a)

\* C19 (commit on failure): a log whose send the transport refused is
\* 'failed' with failedAt and errorMessage; it leaves the contact's
\* timesContacted, emailStatus, lastContacted and schedule and the campaign's
\* emailSent and stats.sent as they were; it does not count toward the
\* account's daily cap; and the next log of that contact in that campaign
\* carries the same step.
C19_CommitOnFailure ==
    /\ \A i \in 1..Len(emaillogs) :
          \/ IsSuccess(emaillogs[i])
          \/ /\ emaillogs[i].status = "failed"
             /\ emaillogs[i].failedAt # NoTime
             /\ emaillogs[i].errorMessage # None
    /\ \A k \in DOMAIN contacts :
          /\ contacts[k].timesContacted = successes("contactId", k)
          /\ contacts[k].schedule = 0
          /\ successes("contactId", k) = 0 =>
                /\ contacts[k].emailStatus = "never-sent"
                /\ contacts[k].lastContacted = NoTime
    /\ \A c \in CampaignIds :
          /\ campaigns[c].emailSent = successes("campaignId", c)
          /\ campaigns[c].statsSent = successes("campaignId", c)
    /\ \A a \in DOMAIN emailaccounts :
          sent_on_day(a, utc_day(now)) < emailaccounts[a].dailyLimit
            => check_daily_limit(emaillogs, emailaccounts, a, now)
    /\ \A i \in 1..Len(emaillogs) : \A j \in 1..Len(emaillogs) :
          (/\ i < j
           /\ ~IsSuccess(emaillogs[i])
           /\ emaillogs[j].contactId = emaillogs[i].contactId
           /\ emaillogs[j].campaignId = emaillogs[i].campaignId
           /\ \A m \in (i + 1)..(j - 1) :
                 emaillogs[m].contactId # emaillogs[i].contactId)
          => emaillogs[j].sequenceStep = emaillogs[i].sequenceStep

\* A send the transport refused, and a later log of the same step to the same
\* contact of the same campaign that was sent.
C19_Witness ==
    \E i \in 1..Len(emaillogs) : \E j \in 1..Len(emaillogs) :
        /\ i < j
        /\ emaillogs[i].status = "failed" /\ emaillogs[j].status = "sent"
        /\ emaillogs[j].contactId = emaillogs[i].contactId
        /\ emaillogs[j].campaignId = emaillogs[i].campaignId
        /\ emaillogs[j].sequenceStep = emaillogs[i].sequenceStep
        /\ emaillogs[j].emailAccountId = emaillogs[i].emailAccountId
        /\ utc_day(emaillogs[j].sentAt) = utc_day(emaillogs[i].sentAt)
        /\ emailaccounts[emaillogs[i].emailAccountId].dailyLimit = 1

\* The gates passed before the cursors are rotated and written.
BeforeRotation == {"no_userId", "no_user", "schedule", "missing_data"}

\* C20 (no lost updates): with two workers on one store, whenever no commit
\* is pending each contact's timesContacted equals the number of successful
\* sends to it and each campaign's emailSent and stats.sent equal the number
\* of its successful sends; and every processing of a campaign that rotates
\* the cursors leaves each stored cursor one further (mod ring length) than
\* it was in the store.
C20_NoLostUpdates ==
    /\ []((\A w \in Workers : pc[w] = "idle") =>
            /\ \A k \in DOMAIN contacts :
                  contacts[k].timesContacted = successes("contactId", k)
            /\ \A c \in CampaignIds :
                  /\ campaigns[c].emailSent = successes("campaignId", c)
                  /\ campaigns[c].statsSent = successes("campaignId", c))
    /\ [][\A w \in Workers :
            (/\ pc[w] = "idle" /\ pos[w] \in 1..Len(fetched[w])
             /\ (pc'[w] # pc[w] \/ pos'[w] # pos[w])
             /\ lastRun'[fetched[w][pos[w]].id].gate \notin BeforeRotation)
            => LET id == fetched[w][pos[w]].id
                   doc == fetched[w][pos[w]].doc
               IN  /\ campaigns'[id].nextEmailAccountToUse =
                        (campaigns[id].nextEmailAccountToUse + 1)
                            % Len(doc.emailAccountIds)
                   /\ campaigns'[id].nextContactToUse =
                        (campaigns[id].nextContactToUse + 1)
                            % Len(doc.contactIds)]_vars

\* C21 (clean cancellation): in a process stopped by the interrupt signal no
\* send is partially applied: every email log with status 'sent' is matched
\* by the contact's timesContacted, by the campaign's emailSent and
\* stats.sent and by the account's lastUsed.
C21_CleanCancellation ==
    \A w \in Workers :
        pc[w] = "stopped" =>
            /\ \A k \in DOMAIN contacts :
                  contacts[k].timesContacted = successes("contactId", k)
            /\ \A c \in CampaignIds :
                  /\ campaigns[c].emailSent = successes("campaignId", c)
                  /\ campaigns[c].statsSent = successes("campaignId", c)
            /\ \A a \in DOMAIN emailaccounts :
                  emailaccounts[a].lastUsed = last_success_at("emailAccountId", a)

\* C22 (run loop resilience): a cycle that ended in an unexpected exception
\* leaves the process at the top of its polling loop, and the next cycle is
\* started only after the handler has slept (a backoff delay).
C22_RunLoopResilience ==
    /\ [](\A w \in Workers : loop[w].failed => pc[w] = "idle" /\ pos[w] = 0)
    /\ [][\A w \in Workers :
            (loop[w].failed /\ ~loop'[w].failed) => loop[w].slept > 0]_vars

\* C23 (every active campaign is served): once a worker has completed a
\* polling cycle, every campaign with isActive = true has been evaluated.
C23_EveryActiveCampaignServed ==
    \A w \in Workers :
        (fetched[w] # <<>> /\ pos[w] = 0)
        => \A c \in DOMAIN campaigns :
              campaigns[c].isActive => lastRun[c].gate # ""

(***************************************************************************)
(* Properties of the reply receiver.                                       *)
(***************************************************************************)
\* The stored emails of a message-id on an account.
StoredFor(account_id, message_id) ==
    {i \in 1..Len(receivedemails) :
        /\ receivedemails[i].emailAccountId = account_id
        /\ receivedemails[i].messageId = message_id}

\* The subject or the body contains a keyword of the owner's ignore list.
Ignorable(account_id, msg) ==
    \E keyword \in ignore_keywords(users[emailaccounts[account_id].userId].ignoreKeywords) :
        \/ contains(lower(msg.subject), keyword)
        \/ contains(lower(msg.body), keyword)

\* Another message delivered to the account has the same from, subject and
\* date as the n-th delivery, under another message-id.
SharesFallbackKey(n) ==
    \E j \in 1..Len(delivered) :
        /\ delivered[j].account = delivered[n].account
        /\ delivered[j].msg.messageId # delivered[n].msg.messageId
        /\ delivered[j].msg.from = delivered[n].msg.from
        /\ delivered[j].msg.subject = delivered[n].msg.subject
        /\ delivered[j].msg.date = delivered[n].msg.date

\* The step delivers a message (with a message-id) that was delivered to the
\* same account before.
Redelivery ==
    /\ Len(delivered') = Len(delivered) + 1
    /\ delivered'[Len(delivered')].msg.messageId # ""
    /\ \E j \in 1..Len(delivered) : delivered[j] = delivered'[Len(delivered')]

C25_DedupKey ==
    \A n \in 1..Len(delivered) :
        LET d == delivered[n]
        IN  (d.msg.messageId # "" /\ ~Ignorable(d.account, d.msg))
            => Cardinality(StoredFor(d.account, d.msg.messageId)) = 1

\* The sent subject equals the inbound subject or contains it, stripped of
\* its Re:/Fwd: prefix, case-insensitively.
SubjectMatches(sent_subject, subject) ==
    \/ sent_subject = subject
    \/ contains(lower(sent_subject), lower(clean_subject(subject)))

\* C26 (match priority): a stored email is linked to the sent email named
\* by In-Reply-To if there is one; else to the one named by the first
\* reference that names a sent email; else to the latest sent email to the
\* sender from the same account with a matching subject; else to none.
C26_MatchPriority ==
    \A n \in 1..Len(receivedemails) :
        LET d == receivedemails[n]
            S == {i \in 1..Len(sentemails) : sentemails[i].userId = d.userId}
            byId == {i \in S : d.inReplyTo # "" /\ sentemails[i].messageId = d.inReplyTo}
            refHits == {r \in 1..Len(d.references) :
                          \E i \in S : sentemails[i].messageId = d.references[r]}
            bySubject == {i \in S : /\ sentemails[i].to = d.from
                                    /\ sentemails[i].emailAccountId = d.emailAccountId
                                    /\ SubjectMatches(sentemails[i].subject, d.subject)}
        IN  IF byId # {} THEN d.sentEmailId = d.inReplyTo
            ELSE IF refHits # {}
                 THEN \E r \in refHits : /\ \A q \in refHits : r <= q
                                         /\ d.sentEmailId = d.references[r]
            ELSE IF bySubject # {}
                 THEN \E i \in bySubject :
                        /\ \A j \in bySubject : sentemails[j].sentAt <= sentemails[i].sentAt
                        /\ d.sentEmailId = sentemails[i].messageId
            ELSE d.sentEmailId = None

\* Stored: a reply whose In-Reply-To and References name different sent
\* emails, and an email matched by its subject.
C26_Witness ==
    /\ \E n \in 1..Len(receivedemails) :
          /\ receivedemails[n].inReplyTo = "s1"
          /\ receivedemails[n].references = <<"s2">>
          /\ receivedemails[n].sentEmailId = "s1"
    /\ \E n \in 1..Len(receivedemails) :
          /\ receivedemails[n].inReplyTo = ""
          /\ receivedemails[n].references = <<>>
          /\ receivedemails[n].sentEmailId = "s3"

\* C27 (Scenario D, reply counted exactly once): a stored email whose
\* In-Reply-To names a sent email of the user is a reply linked to that send
\* and its campaign; a campaign's stats.replied is the number of stored
\* emails linked to it; and a stored reply is linked to a send.
C27_ReplyCountedOnce ==
    /\ \A n \in 1..Len(receivedemails) :
          LET d == receivedemails[n]
          IN  \A i \in 1..Len(sentemails) :
                (/\ d.inReplyTo # "" /\ sentemails[i].messageId = d.inReplyTo
                 /\ sentemails[i].userId = d.userId)
                => /\ d.isReply
                   /\ d.sentEmailId = sentemails[i].messageId
                   /\ d.campaignId = sentemails[i].campaignId
    /\ \A c \in CampaignIds :
          campaigns[c].statsReplied =
              Cardinality({n \in 1..Len(receivedemails) : receivedemails[n].campaignId = c})
    /\ \A n \in 1..Len(receivedemails) :
          receivedemails[n].isReply => receivedemails[n].sentEmailId # None

\* C28 (ignore list): the delivery of a message whose subject or body
\* contains a keyword of the owner's ignore list stores no email, changes no
\* campaign and creates no contact.
C28_IgnoreList ==
    [][(/\ Len(delivered') = Len(delivered) + 1
        /\ Ignorable(delivered'[Len(delivered')].account, delivered'[Len(delivered')].msg))
       => UNCHANGED <<receivedemails, campaigns, contacts>>]_vars

\* An ignorable message from an unknown sender, in reply to a sent email,
\* has been delivered first.
C28_Witness ==
    /\ Len(delivered) >= 1
    /\ Ignorable(delivered[1].account, delivered[1].msg)
    /\ delivered[1].msg.inReplyTo = "s1"
    /\ find_contact(contacts, delivered[1].msg.from,
                    emailaccounts[delivered[1].account].userId) = {}

\* C29 (auto-provisioned contacts): the sender of a stored email has exactly
\* one contact of the account's user, the one the email points to; a contact
\* the receiver created has source 'email_reply' and status 'active'; and no
\* existing contact is modified or removed.
C29_AutoProvisionedContacts ==
    /\ [](/\ \A n \in 1..Len(receivedemails) :
               LET d == receivedemails[n]
               IN  find_contact(contacts, d.from, d.userId) = {d.contactId}
          /\ \A k \in DOMAIN contacts :
               IF k \in DOMAIN InitialContacts THEN contacts[k] = InitialContacts[k]
               ELSE contacts[k].source = "email_reply" /\ contacts[k].status = "active")
    /\ [][\A k \in DOMAIN contacts :
            k \in DOMAIN contacts' /\ contacts'[k] = contacts[k]]_vars

\* Two emails of one unknown sender are stored for one user, and an email of
\* a known contact.
C29_Witness ==
    /\ \E m \in 1..Len(receivedemails) : \E n \in 1..Len(receivedemails) :
          /\ m < n
          /\ receivedemails[m].from = "bob" /\ receivedemails[n].from = "bob"
          /\ receivedemails[m].userId = "u1" /\ receivedemails[n].userId = "u1"
          /\ receivedemails[m].contactId = receivedemails[n].contactId
          /\ receivedemails[m].contactId \notin DOMAIN InitialContacts
    /\ \E n \in 1..Len(receivedemails) :
          receivedemails[n].contactId \in DOMAIN InitialContacts

\* The fixed known set of fields of the template substitution.
KnownFields ==
    {"firstName", "lastName", "fullName", "company", "position", "email", "phone",
     "website", "city", "state", "country", "industry", "personalization", "fromName"}

\* C30 (no known placeholder is left): the output of the template
\* substitution contains no token {{f}} of a known field f.
C30_NoKnownPlaceholder ==
    render.done => \A f \in KnownFields : ~contains(render.result, placeholder(f))

\* The campaign whose processing the worker finishes in this step.
Processed(w, c) ==
    /\ pc[w] = "idle" /\ pos[w] \in 1..Len(fetched[w])
    /\ fetched[w][pos[w]].id = c
    /\ pos'[w] # pos[w]

\* C31 (intent is logged before transport): the transport is invoked only with
\* an email log of that campaign, contact, account and step persisted in the
\* same processing, whose messageId no other log carries; when persisting the
\* log fails the transport is not invoked, no log is written, and no contact
\* or account changes, and the campaign keeps every field but the cursors the
\* rotation wrote before the log was attempted.
C31_IntentLoggedBeforeTransport ==
    /\ [](/\ \A c \in CampaignIds :
               lastRun[c].transport # None =>
                  \E j \in 1..Len(emaillogs) :
                     /\ emaillogs[j].messageId = lastRun[c].transport
                     /\ emaillogs[j].campaignId = c
                     /\ emaillogs[j].contactId = lastRun[c].contact
                     /\ emaillogs[j].emailAccountId = lastRun[c].account
                     /\ emaillogs[j].sequenceStep = lastRun[c].step
          /\ \A i \in 1..Len(emaillogs) : \A j \in 1..Len(emaillogs) :
               i # j => emaillogs[i].messageId # emaillogs[j].messageId)
    /\ [][\A c \in CampaignIds :
            Processed("w1", c) =>
               /\ lastRun'[c].transport # None =>
                     /\ Len(emaillogs') = Len(emaillogs) + 1
                     /\ emaillogs'[Len(emaillogs')].messageId = lastRun'[c].transport
                     /\ emaillogs'[Len(emaillogs')].status \in {"sent", "failed"}
               /\ lastRun'[c].gate = "log_failed" =>
                     /\ lastRun'[c].transport = None
                     /\ emaillogs' = emaillogs
                     /\ contacts' = contacts
                     /\ emailaccounts' = emailaccounts
                     /\ campaigns' =
                           [campaigns EXCEPT
                              ![c].nextEmailAccountToUse =
                                  campaigns'[c].nextEmailAccountToUse,
                              ![c].nextContactToUse = campaigns'[c].nextContactToUse]]_vars

\* The transport was invoked twice, and a later processing of the same
\* campaign could not persist its log.
C31_Witness ==
    \E c \in CampaignIds :
        /\ lastRun[c].gate = "log_failed" /\ lastRun[c].prevGate = "ok"
        /\ Len(emaillogs) >= 2

\* C32 (the ring advances past the account used): after a processing that
\* selected the account at ring index i and sent with it, the campaign's
\* stored account cursor is (i + 1) mod ringLength.
C32_RingAdvancesPastUsed ==
    [][\A c \in CampaignIds :
          (Processed("w1", c) /\ lastRun'[c].gate = "ok") =>
             campaigns'[c].nextEmailAccountToUse =
                (lastRun'[c].idxA + 1) % lastRun'[c].lenA]_vars

\* The worker's processing of campaign c sends from account a to contact k.
WorkerSelects(c, a, k) ==
    /\ ProcessCampaign("w1")
    /\ Processed("w1", c)
    /\ lastRun'[c].gate = "ok"
    /\ lastRun'[c].account = a /\ lastRun'[c].contact = k

\* The scheduled-contact poll returns contact k for campaign c.
PollSelects(c, k) ==
    /\ GetScheduledContacts("w2")
    /\ \E i \in 1..Len(fetched'["w2"]) :
          fetched'["w2"][i].campaign_id = c /\ fetched'["w2"][i].id = k

\* The scheduled send of the current item goes out from account a.
DueSendSelects(a) ==
    /\ ProcessScheduledContact("w2")
    /\ Len(outbox') = Len(outbox) + 1
    /\ outbox'[Len(outbox')].from = a

\* C33 (deterministic selection): in every state, each selection path has at
\* most one account and one contact it can choose for a campaign: the worker's
\* processing, the scheduled-contact poll, and the account pick of the
\* scheduled send.
C33_DeterministicSelection ==
    /\ \A c \in CampaignIds :
         \A a1 \in DOMAIN emailaccounts, a2 \in DOMAIN emailaccounts :
           \A k1 \in DOMAIN contacts, k2 \in DOMAIN contacts :
              (ENABLED WorkerSelects(c, a1, k1) /\ ENABLED WorkerSelects(c, a2, k2))
                 => (a1 = a2 /\ k1 = k2)
    /\ \A c \in CampaignIds :
         \A k1 \in DOMAIN contacts, k2 \in DOMAIN contacts :
            (ENABLED PollSelects(c, k1) /\ ENABLED PollSelects(c, k2)) => k1 = k2
    /\ \A a1 \in DOMAIN emailaccounts, a2 \in DOMAIN emailaccounts :
          (ENABLED DueSendSelects(a1) /\ ENABLED DueSendSelects(a2)) => a1 = a2

\* hasUpcomingSequence says that the contact has an active step left.
FaithfulCache(conts, k) ==
    conts[k].hasUpcomingSequence =
       (conts[k].timesContacted <
           Len(active_sequences(campaigns[conts[k].campaignId].sequences)))

\* C34 (hasUpcomingSequence is a faithful cache): after every send and every
\* maintenance operation on a campaign's contacts, each contact it wrote has
\* hasUpcomingSequence = (timesContacted < number of active steps of its
\* campaign).
C34_FaithfulUpcomingCache ==
    [][\A k \in DOMAIN contacts :
          contacts'[k] # contacts[k] => FaithfulCache(contacts', k)]_vars

\* C39 (schedule recomputation agrees with the post-send schedule): with the
\* sequence definitions unchanged, update_contact_schedules_for_sequence_changes
\* leaves every contact's schedule as update_contact_schedule stored it.
C39_RecomputationIsNoOp ==
    [][\A campaign_id \in CampaignIds :
          UpdateContactSchedulesForSequenceChanges(campaign_id)
             => contacts' = contacts]_vars

\* C35 (daily cap under concurrency): with two workers running, no account
\* has more email logs of a successful status on one UTC day than its
\* dailyLimit.
C35_DailyCapTwoWorkers ==
    \A day \in 0..utc_day(MaxTime) : \A a \in DOMAIN emailaccounts :
        sent_on_day(a, day) <= emailaccounts[a].dailyLimit

Sendable(c, k) ==
    /\ k \in DOMAIN contacts /\ InRing(k, c)
    /\ campaigns[c].isActive
    /\ campaigns[c].userId \in DOMAIN users
    /\ is_within_schedule(campaigns[c], users[campaigns[c].userId].timezone, now)
    /\ some_under_cap(emaillogs, emailaccounts, campaigns[c].emailAccountIds, now)
    /\ validate_contact_status(contacts[k])
    /\ contacts[k].timesContacted < Len(active_sequences(campaigns[c].sequences))
    /\ check_sequence_delay(emaillogs, campaigns, k, c, contacts[k].timesContacted, now)

\* C37 (eventual progress of every contact): under fair repetition of the
\* polling cycles, a contact that can be sent a step is eventually sent one.
C37_EventualProgress ==
    \A c \in CampaignIds : \A k \in {"k1", "k2", "k3"} : \A n \in 0..MaxLogs :
        (Sendable(c, k) /\ contacts[k].timesContacted = n)
            ~> (k \in DOMAIN contacts /\ contacts[k].timesContacted > n)

\* C38 (frame of a skipped campaign): a processing that a gate stops writes
\* no email log and leaves every contact, every account and every campaign
\* field but the two cursors of the processed campaign as they were, and it
\* leaves the cursors too when the gate is one before the rotation (userId,
\* user, schedule, required data).
C38_SkippedCampaignFrame ==
    [][\A c \in CampaignIds :
          (Processed("w1", c) /\ lastRun'[c].gate \in FailedGates) =>
             /\ emaillogs' = emaillogs
             /\ contacts' = contacts
             /\ emailaccounts' = emailaccounts
             /\ campaigns' =
                   [campaigns EXCEPT
                      ![c].nextEmailAccountToUse = campaigns'[c].nextEmailAccountToUse,
                      ![c].nextContactToUse = campaigns'[c].nextContactToUse]
             /\ lastRun'[c].gate \in BeforeRotation => campaigns' = campaigns]_vars

\* A campaign stopped by a gate before the rotation, and a campaign that has
\* sent and was then stopped by a later gate with its account cursor moved.
C38_Witness ==
    \E c \in CampaignIds : \E d \in CampaignIds :
        /\ lastRun[c].gate \in BeforeRotation
        /\ lastRun[d].gate \in FailedGates \ BeforeRotation
        /\ lastRun[d].prevGate = "ok"
        /\ campaigns[d].emailSent >= 1
        /\ campaigns[d].nextEmailAccountToUse # lastRun[d].cursorA

\* C40 (send and reply sides share the send record): a stored inbound message
\* of the campaign owner's mailbox whose In-Reply-To is the messageId of an
\* email log is matched to that log and to its campaign.
C40_SharedSendRecord ==
    \A n \in 1..Len(receivedemails) : \A i \in 1..Len(emaillogs) :
        (/\ receivedemails[n].inReplyTo = emaillogs[i].messageId
         /\ receivedemails[n].userId = campaigns[emaillogs[i].campaignId].userId)
        => /\ receivedemails[n].sentEmailId = emaillogs[i].messageId
           /\ receivedemails[n].campaignId = emaillogs[i].campaignId

=============================================================================
